---------------------------- MODULE Spec2Model ----------------------------
(***************************************************************************)
(* A model of the dashboard aggregator's synchronisation engine:           *)
(*   - package app: leases (lease.go), tasks (task.go), transactions       *)
(*     (tx.go), the Meta store (meta.go);                                  *)
(*   - package codereview: load, writeCL, loadmsg, loadpatch, mailissue    *)
(*     (codereview/load.go) and updateCL (unnamed/part_008);               *)
(*   - package issue: load, writeIssue, search (unnamed/part_000).         *)
(*                                                                         *)
(* The datastore is the only shared state.  A function run by              *)
(* app.Transaction is one atomic step (datastore transactions are          *)
(* serializable) that either commits all of its writes or, when the        *)
(* function returns an error or the backend fails, none of them.           *)
(* Everything a handler does outside a transaction is a sequence of        *)
(* separate steps that other requests may interleave with.                 *)
(*                                                                         *)
(* The clock of the leases counts abstract units of time; the Modified of   *)
(* the merges of the store are abstract instants, the zero time.Time (what *)
(* a missing record reads as) being 0; the times of the two loads are      *)
(* milliseconds.                                                           *)
(***************************************************************************)
EXTENDS Integers, Sequences, FiniteSets, Bags, TLC

VARIABLES
    clock,      \* wall-clock time, what time.Now() returns
    lease,      \* Meta records "Lock:"+name: the stored expiry, or Absent
    calls,      \* the Lock calls in progress (a bag): each one's name, dt and captured now
    last,       \* what the Lock call that returned last returned: "true", or "false"
                \* (the lease was held) or "failed" (false after a failed transaction)
    won,        \* history, per lease name: the last Lock call that returned true since the
                \* last Unlock of the name (its now and dt), and the latest instant until
                \* which an earlier such call was promised the lease
    adding,     \* the Task calls in progress that hold their lease and have yet to
                \* call taskqueue.Add (a bag of task names)
    tlast,      \* the Task call that returned last: its taskName and result
    tasks,      \* the task queue: per App Engine task, its taskName, state and retry count
    freed,      \* history: names whose task function has succeeded and that no Task call has used since
    cls,        \* the datastore kind "CL": per key, the stored CL
    issues,     \* the datastore kind "Issue": per key, the stored Issue
    count,      \* Meta records "codereview.count" and "issue.count"
    ckpt,       \* Meta records "issue.mtime" and "codereview.mtime."+role+"."+group, or Absent
    patching,   \* per CL key: the patch sets a loadpatch in progress has read, or Absent
    mlast,      \* history: the merge (writeCL, writeIssue) that ran last with no other
                \* write to the store since: its argument and its result
    wall,       \* time.Now() as the loads see it, in milliseconds
    feed,       \* the issue tracker: the issues it holds
    run,        \* per running load of package issue (the cron job, the admin request):
                \* its position and its local variables
    crFeed,     \* the code review server: per axis of load, the CLs its search returns
    cronTime,   \* Meta record "app.cron.time": the last tick, or Absent
    trigger,    \* the request to /admin/app/cron in progress: its now, old and force,
                \* its position in the list and, as history, whether it has called Task
    crRun,      \* the load of package codereview (a cron job): its position, its local
                \* variables and, as history, the CLs it fetched on the current axis
                \* and did not merge
    sweep,      \* the scanData call in progress: its scan, the keys its query returned
                \* that it has yet to hand to Task and, as history, the call of Task
                \* it made last
    manual,     \* the CL keys a request to /admin/codereview/refresh is running loadmsg on
    pair,       \* two CL records with the same raw fields that updateCL is run on, and,
                \* as history, the Repo each had before
    keep,       \* one key of the datastore kind "CL" with all the fields of the record:
                \* the stored record, the patch sets a loadpatch in progress has read
                \* and, as history, the write that ran last
    data,       \* the datastore kind of a record type with a dataversion tag: per key,
                \* the stored DV, the updaters' marks and the payload
    later,      \* the calls of laterUpdateKind that the task queue has yet to run
    upd,        \* per request that runs backgroundUpdateKind: the keys its query returned
                \* that it has yet to rewrite, their number and the number of its
                \* failed transactions
    dlast,      \* history: the call of ReadData or WriteData a client made last
    dirs,       \* a call of CL.Dirs: the Repo and the Files of the CL and the result
    auth,       \* a call of Rietveld.do: its position, the credentials the client holds,
                \* the state of the server's session and, as history, the calls it made
    rev,        \* the RevTodo record of a revision and the calls of loadRevOnce on it
    tracker     \* history: the issues the comment of the CL has been posted to, and
                \* the ones it has been posted to more than once

lockVars == <<calls, last, won>>
taskVars == <<adding, tlast, tasks, freed>>
storeVars == <<cls, issues, count, ckpt, patching, mlast>>
issueVars == <<wall, feed, run>>
crVars == <<crFeed, crRun>>
loadVars == <<issueVars, crVars>>
cronVars == <<cronTime, trigger>>
scanVars == <<sweep, manual>>
deriveVars == <<pair>>
keepVars == <<keep>>
dataVars == <<data, later, upd, dlast>>
clientVars == <<dirs, auth, rev, tracker>>
syncVars == <<storeVars, loadVars, cronVars, scanVars, deriveVars, keepVars, dataVars, clientVars>>
leaseVars == <<clock, lease, lockVars, taskVars>>

\* A missing Meta record.
Absent == 0 - 1

-----------------------------------------------------------------------------
(* Bounds of the model. *)

MaxClock == 2
NumProcs == 2
\* The number of tasks the queue ever holds.
MaxTasks == 3
\* The retry limit of a task (cronRetry's 1000, scanRetry's 10), scaled.
RetryLimit == 1

Time  == 0 .. MaxClock

-----------------------------------------------------------------------------
(* Leases: src/app/lease.go *)

\* The lease names used by the lease specification: backgroundUpdateKind's
\* "app.update."+kind for the two registered kinds.
LeaseNames == {<<"app.update.", "CL">>, <<"app.update.", "Issue">>}

\* The names Task is called with: cronHandler's "app.cron."+cr.name.
TaskNames == {"app.cron.issue.load", "app.cron.codereview.load"}

\* The scans of kind "CL" that the scan specification follows
\* (src/codereview/load.go, lines 299-304), and the keys of the CLs they find.
Scans == {"codereview.loadmsg", "codereview.loadpatch"}
ScanKeyList == <<"c1", "c2">>
ScanKeys == {ScanKeyList[i] : i \in DOMAIN ScanKeyList}

\* scanData, line 357 of src/app/data.go: the name of the task for a key,
\* fmt.Sprintf("app.scandata.%s.%s", key.Kind(), key.StringID()); the scan's
\* name is an argument of the task and no part of the task's name.
ScanTaskNameOfScan(name, kind, key) == "app.scandata." \o name \o "." \o kind \o "." \o key
ScanTaskName(name, kind, key) == "app.scandata." \o kind \o "." \o key

ScanTaskNames == {ScanTaskName(s, "CL", k) : s \in Scans, k \in ScanKeys}

\* backgroundUpdateKind, line 265 of src/app/data.go: "app.update."+kind.
UpdateLeaseName == <<"app.update.", "CL">>

AllLeaseNames ==
    LeaseNames \cup {<<"Task.", n>> : n \in TaskNames \cup ScanTaskNames}
               \cup {<<"TaskExec.", n>> : n \in TaskNames \cup ScanTaskNames}
               \cup {UpdateLeaseName}

\* The durations Lock is called with (in seconds, scaled).
Durations == {1, 2}

\* ReadMeta into a zero time.Time: a missing record leaves t at the zero time.
LeaseExpiry(l, name) == IF l[name] = Absent THEN 0 ELSE l[name]

\* now.Before(t): the lease is still held.
LockBlockedInverted(t, now) == t < now
LockBlockedNever(t, now) == FALSE
LockBlocked(t, now) == now < t

\* The value Lock writes: now.Add(dt).
LockExpiryNoDuration(now, dt) == now
LockExpiry(now, dt) == now + dt

\* The function Lock runs inside Transaction, as one atomic step on the lease
\* table: the new table and whether the function returned nil.
LockTxn(l, name, now, dt) ==
    IF LockBlocked(LeaseExpiry(l, name), now)
    THEN [ok |-> FALSE, lease |-> l]
    ELSE [ok |-> TRUE, lease |-> [l EXCEPT ![name] = LockExpiry(now, dt)]]

\* DeleteMeta: the record is deleted whether or not it exists.
UnlockStoreExpiredOnly(l, name) == IF l[name] > clock THEN l ELSE [l EXCEPT ![name] = Absent]
UnlockStore(l, name) == [l EXCEPT ![name] = Absent]

NoWinner == [now |-> Absent, dt |-> 0, promised |-> 0]

\* The history after a Lock call with this now and dt returned true.
Winner(w, now, dt) ==
    [now |-> now, dt |-> dt,
     promised |-> IF w.now = Absent THEN 0
                  ELSE IF w.now + w.dt > w.promised THEN w.now + w.dt ELSE w.promised]

LeaseInit ==
    /\ clock = 0
    /\ lease = [n \in AllLeaseNames |-> Absent]
    /\ calls = EmptyBag
    /\ last = "none"
    /\ won = [n \in AllLeaseNames |-> NoWinner]

\* Lock, line 25: now := time.Now(), taken before the transaction starts.
\* At most NumProcs requests are inside Lock at a time.
LockBegin(name, dt) ==
    /\ BagCardinality(calls) < NumProcs
    /\ calls' = calls (+) SetToBag({[name |-> name, dt |-> dt, now |-> clock]})
    /\ UNCHANGED <<clock, lease, last, won, taskVars, syncVars>>

\* Lock, lines 26-37: the transaction commits and Lock returns err == nil.
LockCommit(c) ==
    /\ BagIn(c, calls)
    /\ calls' = calls (-) SetToBag({c})
    /\ LET r == LockTxn(lease, c.name, c.now, c.dt) IN
        /\ lease' = r.lease
        /\ last' = IF r.ok THEN "true" ELSE "false"
        /\ won' = IF r.ok THEN [won EXCEPT ![c.name] = Winner(@, c.now, c.dt)] ELSE won
    /\ UNCHANGED <<clock, taskVars, syncVars>>

\* Lock, lines 26-37: the transaction fails (contention, an error of ReadMeta
\* or of WriteMeta): nothing is written and Lock returns false, which last
\* records as "failed".
LockFailHalfWritten(c) ==
    /\ BagIn(c, calls)
    /\ calls' = calls (-) SetToBag({c})
    /\ lease' = [lease EXCEPT ![c.name] = LockExpiry(c.now, c.dt)]
    /\ last' = "failed"
    /\ UNCHANGED <<clock, won, taskVars, syncVars>>
LockFail(c) ==
    /\ BagIn(c, calls)
    /\ calls' = calls (-) SetToBag({c})
    /\ last' = "failed"
    /\ UNCHANGED <<clock, lease, won, taskVars, syncVars>>

\* Unlock (by the holder, or by anyone through /admin/app/breaklock).
Unlock(name) ==
    /\ lease' = UnlockStore(lease, name)
    /\ won' = [won EXCEPT ![name] = NoWinner]
    /\ UNCHANGED <<clock, calls, last, taskVars, syncVars>>

\* Time passes.
Tick ==
    /\ clock < MaxClock
    /\ clock' = clock + 1
    /\ UNCHANGED <<lease, lockVars, taskVars, syncVars>>

-----------------------------------------------------------------------------
(* Tasks: src/app/task.go *)

\* Task's lease on "Task."+taskName: 10*365*24*time.Hour, in seconds.
TaskLeaseDuration == 315360000
\* taskpost's lease on "TaskExec."+taskName: 15*time.Minute, in seconds.
ExecLeaseDuration == 900

TaskLeaseName(n) == <<"Task.", n>>
ExecLeaseName(n) == <<"TaskExec.", n>>

\* Task, line 129: Lock(ctxt, "Task."+taskName, 10*365*24*time.Hour).
TaskLockTxnOpen(l, n, now) == [ok |-> TRUE, lease |-> l]
TaskLockTxn(l, n, now) == LockTxn(l, TaskLeaseName(n), now, TaskLeaseDuration)

\* taskpost, line 178: Lock(ctxt, "TaskExec."+taskName, 15*time.Minute).
ExecLockTxn(l, n, now) == LockTxn(l, ExecLeaseName(n), now, ExecLeaseDuration)

\* taskpost, line 215: Unlock(ctxt, "Task." + taskName) after the function succeeded.
TaskDoneLeaseKept(l, n) == l
TaskDoneLease(l, n) == UnlockStore(l, TaskLeaseName(n))

\* taskpost, lines 183-188: the deferred Unlock(ctxt, "TaskExec."+taskName).
ExecDoneLease(l, n) == UnlockStore(l, ExecLeaseName(n))

\* The task queue's answer to a non-2xx response: the task is tried again until
\* its retry limit is used up, and then dropped.
Retried(t) ==
    IF t.tries >= RetryLimit
    THEN [t EXCEPT !.st = "dropped"]
    ELSE [t EXCEPT !.st = "pending", !.tries = @ + 1]

\* The tasks named n that have been created and have not yet run successfully.
Live(q, n) == {i \in DOMAIN q : q[i].name = n /\ q[i].st \in {"pending", "running"}}

TaskIdle ==
    /\ adding = EmptyBag
    /\ tlast = [name |-> "", ret |-> "none"]
    /\ tasks = <<>>
    /\ freed = {}

\* Task, lines 94-133, the transaction of Lock commits: when the lease is held
\* Task returns an error, otherwise it goes on to taskqueue.Add.
TaskLock(n) ==
    /\ BagCardinality(adding) < NumProcs
    /\ LET r == TaskLockTxn(lease, n, clock) IN
        /\ lease' = r.lease
        /\ adding' = IF r.ok THEN adding (+) SetToBag({n}) ELSE adding
        /\ tlast' = [name |-> n, ret |-> IF r.ok THEN "locked" ELSE "err"]
    /\ freed' = freed \ {n}
    /\ UNCHANGED <<clock, lockVars, tasks, syncVars>>

\* Task, lines 129-133, the transaction of Lock fails: Lock returns false and
\* Task returns an error.
TaskLockFail(n) ==
    /\ tlast' = [name |-> n, ret |-> "failed"]
    /\ freed' = freed \ {n}
    /\ UNCHANGED <<clock, lease, lockVars, adding, tasks, syncVars>>

\* Task, lines 135-145: taskqueue.Add succeeds and Task returns nil.
TaskAdd(n) ==
    /\ BagIn(n, adding)
    /\ Len(tasks) < MaxTasks
    /\ adding' = adding (-) SetToBag({n})
    /\ tasks' = Append(tasks, [name |-> n, st |-> "pending", tries |-> 0])
    /\ tlast' = [name |-> n, ret |-> "nil"]
    /\ UNCHANGED <<clock, lease, lockVars, freed, syncVars>>

\* Task, lines 141-144: taskqueue.Add fails and Task returns its error.
TaskAddFail(n) ==
    /\ BagIn(n, adding)
    /\ adding' = adding (-) SetToBag({n})
    /\ tlast' = [name |-> n, ret |-> "err"]
    /\ UNCHANGED <<clock, lease, lockVars, tasks, freed, syncVars>>

\* taskpost, lines 152-182: the queue delivers task i; the handler takes the
\* TaskExec lease, or answers 406 when it cannot.
PostLock(i) ==
    /\ i \in DOMAIN tasks
    /\ tasks[i].st = "pending"
    /\ LET r == ExecLockTxn(lease, tasks[i].name, clock) IN
        /\ lease' = r.lease
        /\ tasks' = [tasks EXCEPT ![i] = IF r.ok THEN [@ EXCEPT !.st = "running"] ELSE Retried(@)]
    /\ UNCHANGED <<clock, lockVars, adding, tlast, freed, syncVars>>

\* taskpost, line 178, the transaction of Lock fails: 406.
PostLockFail(i) ==
    /\ i \in DOMAIN tasks
    /\ tasks[i].st = "pending"
    /\ tasks' = [tasks EXCEPT ![i] = Retried(@)]
    /\ UNCHANGED <<clock, lease, lockVars, adding, tlast, freed, syncVars>>

\* taskpost, lines 204-216: the function returns nil (or has no result) and the
\* handler releases the name.
PostFnOK(i) ==
    /\ i \in DOMAIN tasks
    /\ tasks[i].st = "running"
    /\ lease' = TaskDoneLease(lease, tasks[i].name)
    /\ tasks' = [tasks EXCEPT ![i].st = "succeeded"]
    /\ freed' = freed \cup {tasks[i].name}
    /\ UNCHANGED <<clock, lockVars, adding, tlast, syncVars>>

\* taskpost, lines 190-211 and 183-188: the arguments do not decode or the
\* function returns an error: 406, and the deferred Unlock of TaskExec runs.
PostFnErr(i) ==
    /\ i \in DOMAIN tasks
    /\ tasks[i].st = "running"
    /\ lease' = ExecDoneLease(lease, tasks[i].name)
    /\ tasks' = [tasks EXCEPT ![i] = Retried(@)]
    /\ UNCHANGED <<clock, lockVars, adding, tlast, freed, syncVars>>

\* taskpost, lines 183-188: the function panics; the deferred function recovers,
\* releases TaskExec, and the handler answers 200, which ends the task.
PostFnPanic(i) ==
    /\ i \in DOMAIN tasks
    /\ tasks[i].st = "running"
    /\ lease' = ExecDoneLease(lease, tasks[i].name)
    /\ tasks' = [tasks EXCEPT ![i].st = "panicked"]
    /\ UNCHANGED <<clock, lockVars, adding, tlast, freed, syncVars>>

\* taskpost, lines 183-188 after line 216: the deferred Unlock of TaskExec on
\* the successful path; the handler answers 200 and the queue deletes the task.
PostReturn(i) ==
    /\ i \in DOMAIN tasks
    /\ tasks[i].st = "succeeded"
    /\ lease' = ExecDoneLease(lease, tasks[i].name)
    /\ tasks' = [tasks EXCEPT ![i].st = "done"]
    /\ UNCHANGED <<clock, lockVars, adding, tlast, freed, syncVars>>

-----------------------------------------------------------------------------
(* The record store and the merges: writeCL, loadmsg, loadpatch, mailissue *)
(* (src/codereview/load.go), updateCL (src/unnamed/part_008), writeIssue,  *)
(* updateIssue, postMovedNote (src/unnamed/part_000).                      *)

\* The latest remote modification time; 0 is the zero time.Time.
MaxModified == 2
\* The first-sighting counters stop the model at this value.
MaxCount == 3
CLKeys == {"c1"}
\* The CLs of the code review server that load searches.
LoadCLKeys == {"c1", "c2", "c3"}
\* The number of issues of the tracker.
MaxIssues == 4
IssueIDs == 1 .. MaxIssues
\* The issue that the merges of the store specification are about.
MergeIssueIDs == {1}
Descs == {"a"}
\* The lengths of the lists of patch sets of the remote CLs.
PatchSetLens == {0, 1}
ModTimes == 1 .. MaxModified

\* mtimeKey of load's axes of the group golang-dev.
ReviewerKey == "codereview.mtime.reviewer.golang-dev"
CcKey == "codereview.mtime.cc.golang-dev"
\* ... and of the group golang-codereviews.
ReviewsReviewerKey == "codereview.mtime.reviewer.golang-codereviews"
ReviewsCcKey == "codereview.mtime.cc.golang-codereviews"
CRKeys == {ReviewerKey, CcKey, ReviewsReviewerKey, ReviewsCcKey}
CkptKeys == {"issue.mtime"} \cup CRKeys
CountKeys == {"codereview.count", "issue.count"}

\* The zero CL, what ReadData leaves in old when there is no record.  A list of
\* patch sets is modelled by its length, a list of messages by MessagesLoaded,
\* the list MailedIssue by whether it is non-empty.
ZeroCL ==
    [stored |-> FALSE, CL |-> "", Desc |-> "", Modified |-> 0, Dead |-> FALSE,
     MessagesLoaded |-> FALSE, PatchSets |-> 0, PatchSetsLoaded |-> FALSE,
     MailedIssue |-> FALSE]

\* The CL structures writeCL is called with: jsonCL.toCL of a search result
\* (load) or of a CL fetched with its messages (loadmsg) ...
RemoteCLs ==
    {[CL |-> k, Desc |-> d, Modified |-> m, Dead |-> FALSE, MessagesLoaded |-> ml,
      PatchSets |-> p] :
        k \in CLKeys, d \in Descs, m \in ModTimes, ml \in BOOLEAN, p \in PatchSetLens}

\* ... or loadmsg's &CL{CL: key, Dead: true} for a CL the server answers 404 for.
DeadCL(k) ==
    [CL |-> k, Desc |-> "", Modified |-> 0, Dead |-> TRUE, MessagesLoaded |-> FALSE,
     PatchSets |-> 0]

MergedCLs == RemoteCLs \cup {DeadCL(k) : k \in CLKeys}

\* updateCL, the updater registered for kind "CL", run by ReadData and WriteData.
updateCL(cl) ==
    IF cl.Dead THEN [cl EXCEPT !.MessagesLoaded = TRUE, !.PatchSetsLoaded = TRUE] ELSE cl

ReadCL(c, k) == IF c[k].stored THEN updateCL(c[k]) ELSE ZeroCL

\* writeCL, line 262: old.Modified.After(cl.Modified).
StaleCLNever(old, cl) == FALSE
StaleCL(old, cl) == old.Modified > cl.Modified

\* writeCL, lines 256-282: the copy of cl into old.
CopyCL(old, cl) ==
    IF cl.Dead
    THEN [old EXCEPT !.Dead = TRUE]
    ELSE [old EXCEPT !.Dead = FALSE,
                     !.CL = cl.CL,
                     !.Desc = cl.Desc,
                     !.Modified = cl.Modified,
                     !.MessagesLoaded = cl.MessagesLoaded,
                     !.PatchSets = cl.PatchSets,
                     !.PatchSetsLoaded = IF old.PatchSets # cl.PatchSets THEN FALSE ELSE @]

\* The function writeCL runs in its transaction, applied to the store (c: kind
\* CL, n: the counters, p: the checkpoints): the error it returns and the store
\* the transaction leaves (unchanged when it returns an error).
WriteCLTxn(c, n, p, cl, mtimeKey, modified) ==
    LET old == ReadCL(c, cl.CL)
        n1 == IF old.CL = ""
              THEN [n EXCEPT !["codereview.count"] = @ + 1]
              ELSE n
    IN  IF ~cl.Dead /\ StaleCL(old, cl)
        THEN [err |-> "err", cls |-> c, count |-> n, ckpt |-> p]
        ELSE [err |-> "nil",
              cls |-> [c EXCEPT ![cl.CL] = [updateCL(CopyCL(old, cl)) EXCEPT !.stored = TRUE]],
              count |-> n1,
              ckpt |-> IF mtimeKey # "" THEN [p EXCEPT ![mtimeKey] = modified] ELSE p]

ZeroIssue ==
    [stored |-> FALSE, ID |-> 0, Summary |-> "", Modified |-> 0, Moved |-> FALSE,
     NeedGithubNote |-> FALSE]

\* The issues search returns; Moved stands for the label "IssueMoved".
RemoteIssues ==
    {[ID |-> i, Summary |-> d, Modified |-> m, Moved |-> mv] :
        i \in MergeIssueIDs, d \in Descs, m \in ModTimes, mv \in BOOLEAN}

\* updateIssue, the updater registered for kind "Issue".
updateIssue(issue) == IF issue.Moved THEN issue ELSE [issue EXCEPT !.NeedGithubNote = TRUE]

ReadIssue(s, id) == IF s[id].stored THEN updateIssue(s[id]) ELSE ZeroIssue

\* writeIssue, line 177: old.Modified.After(issue.Modified).
StaleIssueNever(old, issue) == FALSE
StaleIssue(old, issue) == old.Modified > issue.Modified

\* writeIssue, lines 181-196: the copy of issue into old.
CopyIssue(old, issue) ==
    updateIssue([old EXCEPT !.ID = issue.ID,
                            !.Summary = issue.Summary,
                            !.Moved = issue.Moved,
                            !.Modified = issue.Modified])

\* The function writeIssue runs in its transaction, applied to the store.
WriteIssueTxn(s, n, p, issue, stateKey, state) ==
    LET old == ReadIssue(s, issue.ID)
        n1 == IF old.ID = 0
              THEN [n EXCEPT !["issue.count"] = @ + 1]
              ELSE n
    IN  IF StaleIssue(old, issue)
        THEN [err |-> "err", issues |-> s, count |-> n, ckpt |-> p]
        ELSE [err |-> "nil",
              issues |-> [s EXCEPT ![issue.ID] =
                            [updateIssue(CopyIssue(old, issue)) EXCEPT !.stored = TRUE]],
              count |-> n1,
              ckpt |-> IF stateKey # "" THEN [p EXCEPT ![stateKey] = state] ELSE p]

NoMerge == [kind |-> "none"]

StoreEmpty ==
    /\ cls = [k \in CLKeys \cup LoadCLKeys |-> ZeroCL]
    /\ issues = [i \in IssueIDs |-> ZeroIssue]
    /\ count = [k \in CountKeys |-> 0]
    /\ ckpt = [k \in CkptKeys |-> Absent]
    /\ patching = [k \in CLKeys |-> Absent]
    /\ mlast = NoMerge

\* load, line 221: writeCL(ctxt, cl, mtimeKey, jcl.Modified) for one search
\* result; the transaction commits or returns its error.
WriteCLFromLoad(cl, mtimeKey) ==
    /\ ~cl.MessagesLoaded
    /\ count["codereview.count"] < MaxCount
    /\ LET r == WriteCLTxn(cls, count, ckpt, cl, mtimeKey, cl.Modified) IN
        /\ cls' = r.cls
        /\ count' = r.count
        /\ ckpt' = r.ckpt
        /\ mlast' = [kind |-> "CL", r |-> cl, ret |-> r.err]
    /\ UNCHANGED <<leaseVars, loadVars, cronVars, deriveVars, keepVars, dataVars, scanVars, issues, patching, clientVars>>

\* loadmsg, lines 313-333: the CL is fetched with its messages and merged, or
\* the server answers 404 and the CL is merged as dead.
LoadMsg(cl) ==
    /\ cl.Dead \/ cl.MessagesLoaded
    /\ count["codereview.count"] < MaxCount
    /\ LET r == WriteCLTxn(cls, count, ckpt, cl, "", 0) IN
        /\ cls' = r.cls
        /\ count' = r.count
        /\ ckpt' = r.ckpt
        /\ mlast' = [kind |-> "CL", r |-> cl, ret |-> r.err]
    /\ UNCHANGED <<leaseVars, loadVars, cronVars, deriveVars, keepVars, dataVars, scanVars, issues, patching, clientVars>>

\* writeCL, lines 244 and 292-296: the datastore fails the transaction; nothing
\* is written and writeCL returns the error.
WriteCLFail ==
    /\ \E k \in CLKeys : cls[k].stored
    /\ UNCHANGED <<leaseVars, syncVars>>

\* loadpatch, lines 341-364: the CL is read outside any transaction and its
\* patch sets are fetched and stored.
LoadPatchRead(k) ==
    /\ patching[k] = Absent
    /\ cls[k].stored
    /\ ~ReadCL(cls, k).PatchSetsLoaded
    /\ patching' = [patching EXCEPT ![k] = ReadCL(cls, k).PatchSets]
    /\ UNCHANGED <<leaseVars, loadVars, cronVars, deriveVars, keepVars, dataVars, scanVars, cls, issues, count, ckpt, mlast, clientVars>>

\* loadpatch, lines 366-397: the transaction.  With no patch set read, last is
\* nil and the function panics at last.Modified; with more patch sets stored
\* than read it returns an error; otherwise the record is marked loaded.
LoadPatchTxn(k) ==
    /\ patching[k] # Absent
    /\ LET old == ReadCL(cls, k)
           writes == patching[k] > 0 /\ old.PatchSets <= patching[k]
       IN  /\ cls' = IF writes
                     THEN [cls EXCEPT ![k] = updateCL([old EXCEPT !.PatchSetsLoaded = TRUE])]
                     ELSE cls
           /\ mlast' = IF writes THEN NoMerge ELSE mlast
    /\ patching' = [patching EXCEPT ![k] = Absent]
    /\ UNCHANGED <<leaseVars, loadVars, cronVars, deriveVars, keepVars, dataVars, scanVars, issues, count, ckpt, clientVars>>

\* loadpatch, lines 352-363 and 366: a fetch, a write of a Patch or the
\* transaction fails.
LoadPatchFail(k) ==
    /\ patching[k] # Absent
    /\ patching' = [patching EXCEPT ![k] = Absent]
    /\ UNCHANGED <<leaseVars, loadVars, cronVars, deriveVars, keepVars, dataVars, scanVars, cls, issues, count, ckpt, mlast, clientVars>>

\* mailissue, lines 434-441: the transaction, reached when the CL read before
\* it had issues to mail; it appends the issues mailed to MailedIssue.
MailIssue(k) ==
    /\ cls[k].stored
    /\ cls' = [cls EXCEPT ![k] = updateCL([ReadCL(cls, k) EXCEPT !.MailedIssue = TRUE])]
    /\ mlast' = NoMerge
    /\ UNCHANGED <<leaseVars, loadVars, cronVars, deriveVars, keepVars, dataVars, scanVars, issues, count, ckpt, patching, clientVars>>

\* backgroundUpdateKind, lines 292-299: the transaction that reads a record and
\* writes it back through the updaters.
UpdateRecord(k) ==
    /\ cls[k].stored
    /\ cls' = [cls EXCEPT ![k] = updateCL(ReadCL(cls, k))]
    /\ mlast' = NoMerge
    /\ UNCHANGED <<leaseVars, loadVars, cronVars, deriveVars, keepVars, dataVars, scanVars, issues, count, ckpt, patching, clientVars>>

\* load (issue), line 150: writeIssue(ctxt, issue, "", nil) for one issue of
\* the page; the transaction commits or returns its error.
WriteIssue(issue) ==
    /\ count["issue.count"] < MaxCount
    /\ LET r == WriteIssueTxn(issues, count, ckpt, issue, "", 0) IN
        /\ issues' = r.issues
        /\ count' = r.count
        /\ ckpt' = r.ckpt
        /\ mlast' = [kind |-> "Issue", r |-> issue, ret |-> r.err]
    /\ UNCHANGED <<leaseVars, loadVars, cronVars, deriveVars, keepVars, dataVars, scanVars, cls, patching, clientVars>>

\* writeIssue, lines 166 and 206-209: the datastore fails the transaction;
\* nothing is written and writeIssue returns the error.
WriteIssueFail ==
    /\ \E i \in IssueIDs : issues[i].stored
    /\ UNCHANGED <<leaseVars, syncVars>>

\* postMovedNote, lines 525-609: one of its two transactions; the first clears
\* NeedGithubNote of an issue that needs no note, the second records that the
\* note has been posted.
PostMovedNote(id, posted) ==
    /\ issues[id].stored
    /\ LET old == ReadIssue(issues, id)
           new == IF posted
                  THEN [old EXCEPT !.NeedGithubNote = FALSE, !.Moved = TRUE]
                  ELSE [old EXCEPT !.NeedGithubNote = FALSE]
       IN  issues' = [issues EXCEPT ![id] = updateIssue(new)]
    /\ mlast' = NoMerge
    /\ UNCHANGED <<leaseVars, loadVars, cronVars, deriveVars, keepVars, dataVars, scanVars, cls, count, ckpt, patching, clientVars>>

NextMerge ==
    \/ \E cl \in RemoteCLs : WriteCLFromLoad(cl, ReviewerKey)
    \/ \E cl \in MergedCLs : LoadMsg(cl)
    \/ WriteCLFail
    \/ \E k \in CLKeys : LoadPatchRead(k)
    \/ \E k \in CLKeys : LoadPatchTxn(k)
    \/ \E k \in CLKeys : LoadPatchFail(k)
    \/ \E k \in CLKeys : MailIssue(k)
    \/ \E k \in CLKeys : UpdateRecord(k)
    \/ \E issue \in RemoteIssues : WriteIssue(issue)
    \/ WriteIssueFail
    \/ \E id \in MergeIssueIDs, posted \in BOOLEAN : PostMovedNote(id, posted)

-----------------------------------------------------------------------------
(* The issue adapter: load and search (src/unnamed/part_000).  Times are   *)
(* milliseconds; the tracker does not change during a load.                *)

Second == 1000
Minute == 60000
Hour == 3600000
\* load's default mtime, time.Date(2009, 1, 1, ...), as milliseconds after the
\* zero time.Time.
Epoch == 1000000

\* load's maxResults (500), scaled.
MaxResults == 3

\* The number of times each load is started.
MaxRuns == 2
\* The number of turns of load's loop that the model follows.
MaxTry == 12

Loaders == {"cron", "admin"}

\* The instants at which the loads may start.
Instants == {Epoch + 100 * Second, Epoch + 8192 * Second}

FeedIssue(id, modified) == [ID |-> id, Summary |-> "a", Modified |-> modified, Moved |-> FALSE]

\* A tracker with one issue modified early and a burst of maxResults or more
\* issues modified ten seconds before the first load.
BurstFeed ==
    {FeedIssue(1, Epoch + 10 * Second)}
        \cup {FeedIssue(i, Epoch + 90 * Second) : i \in 2 .. MaxIssues}

\* A tracker with maxResults issues modified at the very instant the first
\* window starts: every window, however narrow, holds them all.
StuckFeed == {FeedIssue(i, Epoch) : i \in 1 .. MaxResults}

\* A tracker with fewer than maxResults issues, modified one after the other
\* since the first checkpoint (1, 2 and 5 seconds after it when there are
\* three).
TrickleFeed == {FeedIssue(i, Epoch + (i * i - 2 * i + 2) * Second) : i \in 1 .. MaxResults - 1}

Feeds == {{}, BurstFeed, StuckFeed, TrickleFeed} \cup {{x} : x \in BurstFeed}

\* search, lines 280-285: updateMin.UTC().Format(time.RFC3339) drops the
\* fraction of the second.
FormatRFC3339(t) == (t \div Second) * Second

\* search: the issues the tracker returns for updated-min and updated-max.
Search(f, updateMin, updateMax) ==
    {x \in f : FormatRFC3339(updateMin) <= x.Modified /\ x.Modified <= FormatRFC3339(updateMax)}

\* search, line 385: the issues as a list (the summaries of the model's issues
\* sort in the order of their IDs).
RECURSIVE Sorted(_)
Sorted(S) ==
    IF S = {} THEN <<>>
    ELSE LET x == CHOOSE y \in S : \A z \in S : y.ID <= z.ID
         IN  <<x>> \o Sorted(S \ {x})

\* load, lines 124-128: the new end of a window that returned too many issues.
ShrunkNot(mtime, now) == now
Shrunk(mtime, now) ==
    IF now - mtime > 1 * Hour
    THEN mtime + (now - mtime) \div 10
    ELSE mtime + (now - mtime) \div 2

\* load, line 120: now.Sub(mtime) <= 2*time.Second.
CannotShortenNever(mtime, now) == FALSE
CannotShorten(mtime, now) == now - mtime <= 2 * Second

\* load, lines 112-115: after a window was shortened load asks to be run again.
NeedMoreNever(try) == FALSE
NeedMore(try) == try > 0

\* load, lines 149-151: mtime follows the latest Modified merged.
LatestKept(mtime, modified) == mtime
Latest(mtime, modified) == IF mtime < modified THEN modified ELSE mtime

\* A load that is not running: what its last run logged last (out) and
\* returned (ret), and how many runs it has started.  A running load keeps,
\* as history, the checkpoint it started from.
IdleRun(out, ret, runs) ==
    [pc |-> "idle", mtime |-> 0, now |-> 0, try |-> 0, needMore |-> FALSE,
     page |-> <<>>, found |-> 0, out |-> out, ret |-> ret, runs |-> runs, from |-> 0]

\* No load has run yet; f is the tracker's content.
IssueIdle(f) ==
    /\ wall = Epoch + 100 * Second
    /\ feed = f
    /\ run = [l \in Loaders |-> IdleRun("none", "none", 0)]

\* Time passes.
Pass(t) ==
    /\ t > wall
    /\ wall' = t
    /\ UNCHANGED <<leaseVars, storeVars, feed, run, crVars, cronVars, deriveVars, keepVars, dataVars, scanVars, clientVars>>

\* load, lines 80-93: the checkpoint is read (the default stands when there is
\* none) and now is taken.
LoadStart(l) ==
    /\ run[l].pc = "idle"
    /\ run[l].runs < MaxRuns
    /\ run' = [run EXCEPT ![l] =
                [pc |-> "search",
                 mtime |-> IF ckpt["issue.mtime"] = Absent THEN Epoch ELSE ckpt["issue.mtime"],
                 now |-> wall, try |-> 0, needMore |-> FALSE, page |-> <<>>,
                 found |-> 0, out |-> "running", ret |-> "none",
                 runs |-> run[l].runs + 1,
                 from |-> IF ckpt["issue.mtime"] = Absent THEN Epoch ELSE ckpt["issue.mtime"]]]
    /\ UNCHANGED <<leaseVars, storeVars, wall, feed, crVars, cronVars, deriveVars, keepVars, dataVars, scanVars, clientVars>>

\* load, lines 94-130: one turn of the loop, the summary search and what load
\* does with its result: an empty window moves the checkpoint to a minute
\* before its end and ends the load; a window with fewer than maxResults issues
\* goes on to the full load; a window that cannot be shortened ends the load;
\* any other window is shortened and searched again.
LoadSearch(l) ==
    /\ run[l].pc = "search"
    /\ run[l].try < MaxTry
    /\ LET r == run[l]
           n == Cardinality(Search(feed, r.mtime, r.now))
       IN  IF n = 0
           THEN /\ ckpt' = [ckpt EXCEPT !["issue.mtime"] = r.now - 1 * Minute]
                /\ run' = [run EXCEPT ![l] =
                            IdleRun("no updates found", IF r.try > 0 THEN "ErrMoreCron" ELSE "nil", r.runs)]
           ELSE /\ ckpt' = ckpt
                /\ run' = [run EXCEPT ![l] =
                            IF n < MaxResults
                            THEN [r EXCEPT !.pc = "detail", !.needMore = NeedMore(r.try),
                                           !.found = n]
                            ELSE IF CannotShorten(r.mtime, r.now)
                            THEN IdleRun("cannot shorten update time frame", "nil", r.runs)
                            ELSE [r EXCEPT !.now = Shrunk(r.mtime, r.now), !.try = @ + 1,
                                           !.found = n]]
    /\ UNCHANGED <<leaseVars, cls, issues, count, patching, mlast, wall, feed, crVars, cronVars, deriveVars, keepVars, dataVars, scanVars, clientVars>>

\* load, lines 95-99 and 133-137: a search fails; load logs it and returns nil.
LoadSearchErr(l) ==
    /\ run[l].pc \in {"search", "detail"}
    /\ run' = [run EXCEPT ![l] = IdleRun("load issues", "nil", run[l].runs)]
    /\ UNCHANGED <<leaseVars, storeVars, wall, feed, crVars, cronVars, deriveVars, keepVars, dataVars, scanVars, clientVars>>

\* search, lines 339-351, and load, lines 133-137: in the full search the
\* fetch or the decoding of the comments of one issue, x, fails; search
\* returns the error and no issue, load logs it and returns nil.
LoadDetailErr(l, x) ==
    /\ run[l].pc = "detail"
    /\ x \in Search(feed, run[l].mtime, run[l].now)
    /\ run' = [run EXCEPT ![l] = IdleRun("full load of issues", "nil", run[l].runs)]
    /\ UNCHANGED <<leaseVars, storeVars, wall, feed, crVars, cronVars, deriveVars, keepVars, dataVars, scanVars, clientVars>>

\* load, lines 133-142: the full search of the window.
LoadDetail(l) ==
    /\ run[l].pc = "detail"
    /\ LET r == run[l]
           found == Sorted(Search(feed, r.mtime, r.now))
       IN  run' = [run EXCEPT ![l] =
                    IF found = <<>>
                    THEN IdleRun("unexpected: no issues", "nil", r.runs)
                    ELSE [r EXCEPT !.pc = "merge", !.page = found]]
    /\ UNCHANGED <<leaseVars, storeVars, wall, feed, crVars, cronVars, deriveVars, keepVars, dataVars, scanVars, clientVars>>

\* load, lines 144-152: writeIssue of the next issue of the page; an error ends
\* the load with the checkpoint as it was.
LoadWrite(l) ==
    /\ run[l].pc = "merge"
    /\ LET r == run[l]
           issue == Head(r.page)
           w == WriteIssueTxn(issues, count, ckpt, issue, "", 0)
       IN  /\ issues' = w.issues
           /\ count' = w.count
           /\ ckpt' = w.ckpt
           /\ mlast' = [kind |-> "Issue", r |-> issue, ret |-> w.err]
           /\ run' = [run EXCEPT ![l] =
                        IF w.err # "nil"
                        THEN IdleRun("storing issue", "nil", run[l].runs)
                        ELSE [r EXCEPT !.page = Tail(r.page),
                                       !.mtime = Latest(r.mtime, issue.Modified),
                                       !.pc = IF Tail(r.page) = <<>> THEN "save" ELSE "merge"]]
    /\ UNCHANGED <<leaseVars, cls, patching, wall, feed, crVars, cronVars, deriveVars, keepVars, dataVars, scanVars, clientVars>>

\* load, lines 148-152: the datastore fails writeIssue's transaction.
LoadWriteFail(l) ==
    /\ run[l].pc = "merge"
    /\ run' = [run EXCEPT ![l] = IdleRun("storing issue", "nil", run[l].runs)]
    /\ UNCHANGED <<leaseVars, storeVars, wall, feed, crVars, cronVars, deriveVars, keepVars, dataVars, scanVars, clientVars>>

\* load, lines 154-162: the checkpoint is written: the latest Modified seen, or
\* a second before the end of a shortened window.
LoadSave(l) ==
    /\ run[l].pc = "save"
    /\ LET r == run[l]
           mtime == IF r.try > 0 THEN r.now - 1 * Second ELSE r.mtime
       IN  /\ ckpt' = [ckpt EXCEPT !["issue.mtime"] = mtime]
           /\ run' = [run EXCEPT ![l] = IdleRun("saved", IF r.needMore THEN "ErrMoreCron" ELSE "nil", r.runs)]
    /\ UNCHANGED <<leaseVars, cls, issues, count, patching, mlast, wall, feed, crVars, cronVars, deriveVars, keepVars, dataVars, scanVars, clientVars>>

NextIssue ==
    \/ \E t \in Instants : Pass(t)
    \/ \E l \in Loaders : LoadStart(l)
    \/ \E l \in Loaders : LoadSearch(l)
    \/ \E l \in Loaders : LoadSearchErr(l)
    \/ \E l \in Loaders, x \in feed : LoadDetailErr(l, x)
    \/ \E l \in Loaders : LoadDetail(l)
    \/ \E l \in Loaders : LoadWrite(l)
    \/ \E l \in Loaders : LoadWriteFail(l)
    \/ \E l \in Loaders : LoadSave(l)

-----------------------------------------------------------------------------
(* The code review adapter: load (src/codereview/load.go).  Times are      *)
(* milliseconds; the server's lists do not change during a load.           *)

\* load's itemsPerPage (100), scaled.
ItemsPerPage == 2

\* load, lines 176-180: the axes (mtimeKey) in the order load visits them.
Axes == <<ReviewerKey, CcKey, ReviewsReviewerKey, ReviewsCcKey>>

\* A search result (jsonCL): Issue is the CL's number as toCL prints it.
RemoteCL(k, modified) == [Issue |-> k, Desc |-> "a", Modified |-> modified, PatchSets |-> 1]

\* Three CLs, the first two modified within the same second.
ThreeCLs ==
    {RemoteCL("c1", Epoch + 1500), RemoteCL("c2", Epoch + 1700), RemoteCL("c3", Epoch + 2500)}

NoCLs == [a \in DOMAIN Axes |-> {}]

\* The servers of the model: one with no CL, and those where every axis lists
\* the CL c1 and one axis lists all three.
CRFeeds ==
    {NoCLs} \cup
    {[a \in DOMAIN Axes |-> IF a = b THEN ThreeCLs ELSE {x \in ThreeCLs : x.Issue = "c1"}] :
        b \in DOMAIN Axes}

\* parseTime of a well-formed time of the server: the instant it denotes
\* (time.ParseInLocation accepts the fraction of the second).
parseTime(s) == s

\* jsonCL.toCL of a search result, which carries no messages.
toCL(j) ==
    [CL |-> j.Issue, Desc |-> j.Desc, Modified |-> parseTime(j.Modified), Dead |-> FALSE,
     MessagesLoaded |-> FALSE, PatchSets |-> j.PatchSets]

\* load, lines 191-193: mtime[:i] drops the fraction of the second; the empty
\* string of a missing checkpoint has none.
DropFraction(mtime) == IF mtime = Absent THEN Absent ELSE (mtime \div Second) * Second

\* The server's list in the order "modified".
RECURSIVE ByModified(_)
ByModified(S) ==
    IF S = {} THEN <<>>
    ELSE LET x == CHOOSE y \in S : \A z \in S : y.Modified <= z.Modified
         IN  <<x>> \o ByModified(S \ {x})

\* The page the server returns for ModifiedAfter, Order, Cursor and Limit: the
\* cursor is the number of results the earlier pages of the query held.
Query(S, modifiedAfter, cursor) ==
    LET all == ByModified({x \in S : x.Modified > modifiedAfter})
        to == IF cursor + ItemsPerPage < Len(all) THEN cursor + ItemsPerPage ELSE Len(all)
    IN  SubSeq(all, cursor + 1, to)

\* The CLs of a list.
Listed(page) == {page[i] : i \in DOMAIN page}

\* The load when it is not running: what its last run returned and how many
\* runs it has started.
IdleCR(ret, runs) ==
    [pc |-> "idle", axis |-> 0, deadline |-> 0, mtime |-> 0, cursor |-> 0, page |-> <<>>,
     results |-> 0, failed |-> {}, skipped |-> {}, ret |-> ret, runs |-> runs]

\* The load has not run yet; f is the server's content.
CRIdle(f) ==
    /\ crFeed = f
    /\ crRun = IdleCR("none", 0)

\* load, line 174: the deadline is set.
CRStart ==
    /\ crRun.pc = "idle"
    /\ crRun.runs < MaxRuns
    /\ crRun' = [IdleCR("none", crRun.runs + 1) EXCEPT
                    !.pc = "axis", !.axis = 1, !.deadline = wall + 5 * Minute]
    /\ UNCHANGED <<leaseVars, storeVars, issueVars, crFeed, cronVars, deriveVars, keepVars, dataVars, scanVars, clientVars>>

\* load, lines 176-195 and 239-240: the next axis: its checkpoint is read and
\* cut to the second; after the last axis load returns nil.
CRAxis ==
    /\ crRun.pc = "axis"
    /\ crRun' = IF crRun.axis > Len(Axes)
                THEN IdleCR("nil", crRun.runs)
                ELSE [crRun EXCEPT !.pc = "fetch",
                                   !.mtime = DropFraction(ckpt[Axes[crRun.axis]]),
                                   !.cursor = 0, !.page = <<>>, !.results = 0,
                                   !.failed = {}, !.skipped = {}]
    /\ UNCHANGED <<leaseVars, storeVars, issueVars, crFeed, cronVars, deriveVars, keepVars, dataVars, scanVars, clientVars>>

\* load, lines 196-217: a page is fetched; an empty page ends the axis.
CRFetch ==
    /\ crRun.pc = "fetch"
    /\ LET q == Query(crFeed[crRun.axis], crRun.mtime, crRun.cursor) IN
        crRun' = IF q = <<>>
                 THEN [crRun EXCEPT !.pc = "axis", !.axis = @ + 1]
                 ELSE [crRun EXCEPT !.pc = "write", !.page = q, !.results = Len(q),
                                    !.cursor = @ + Len(q)]
    /\ UNCHANGED <<leaseVars, storeVars, issueVars, crFeed, cronVars, deriveVars, keepVars, dataVars, scanVars, clientVars>>

\* load, lines 209-212: the fetch fails, which ends the axis.
CRFetchErr ==
    /\ crRun.pc = "fetch"
    /\ crRun' = [crRun EXCEPT !.pc = "axis", !.axis = @ + 1]
    /\ UNCHANGED <<leaseVars, storeVars, issueVars, crFeed, cronVars, deriveVars, keepVars, dataVars, scanVars, clientVars>>

\* load, lines 219-224: writeCL of the next result of the page, with the axis'
\* mtimeKey and the result's Modified; an error breaks out of the loop over
\* the page, leaving the rest of the page unmerged.
CRWrite ==
    /\ crRun.pc = "write"
    /\ LET jcl == Head(crRun.page)
           w == WriteCLTxn(cls, count, ckpt, toCL(jcl), Axes[crRun.axis], jcl.Modified)
       IN  /\ cls' = w.cls
           /\ count' = w.count
           /\ ckpt' = w.ckpt
           /\ mlast' = [kind |-> "CL", r |-> toCL(jcl), ret |-> w.err]
           /\ crRun' = IF w.err # "nil"
                       THEN [crRun EXCEPT !.pc = "paged", !.page = <<>>,
                                          !.failed = @ \cup {jcl},
                                          !.skipped = @ \cup Listed(Tail(crRun.page))]
                       ELSE [crRun EXCEPT !.page = Tail(@),
                                          !.pc = IF Tail(crRun.page) = <<>>
                                                 THEN "paged" ELSE "write"]
    /\ UNCHANGED <<leaseVars, issues, patching, issueVars, crFeed, cronVars, deriveVars, keepVars, dataVars, scanVars, clientVars>>

\* load, lines 221-223: the datastore fails writeCL's transaction: nothing is
\* written and load breaks out of the loop over the page.
CRWriteFail ==
    /\ crRun.pc = "write"
    /\ crRun' = [crRun EXCEPT !.pc = "paged", !.page = <<>>,
                              !.failed = @ \cup {Head(crRun.page)},
                              !.skipped = @ \cup Listed(Tail(crRun.page))]
    /\ UNCHANGED <<leaseVars, storeVars, issueVars, crFeed, cronVars, deriveVars, keepVars, dataVars, scanVars, clientVars>>

\* load, lines 226-235: after the loop over the page: a page shorter than
\* itemsPerPage ends the axis; past the deadline load returns ErrMoreCron;
\* otherwise the next page is fetched.
CRPaged ==
    /\ crRun.pc = "paged"
    /\ crRun' = IF crRun.results < ItemsPerPage
                THEN [crRun EXCEPT !.pc = "axis", !.axis = @ + 1]
                ELSE IF wall > crRun.deadline
                THEN IdleCR("ErrMoreCron", crRun.runs)
                ELSE [crRun EXCEPT !.pc = "fetch"]
    /\ UNCHANGED <<leaseVars, storeVars, issueVars, crFeed, cronVars, deriveVars, keepVars, dataVars, scanVars, clientVars>>

NextCR ==
    \/ \E t \in Instants : Pass(t)
    \/ CRStart
    \/ CRAxis
    \/ CRFetch
    \/ CRFetchErr
    \/ CRWrite
    \/ CRWriteFail
    \/ CRPaged

-----------------------------------------------------------------------------
(* Cron: cronHandler and cronExec (src/app/cron.go, lines 1-171), over the  *)
(* tasks of src/app/task.go.  Times are milliseconds (wall); the leases of  *)
(* the tasks, of 15 minutes and more, do not expire within the instants of  *)
(* the specification.  tlast and freed, the history of the calls of Task,   *)
(* are not kept here; a task of the queue carries, as history, what its job *)
(* function returned last, and the queue holds the tasks that have not      *)
(* ended.  The requests to /admin/app/cron are followed one at  *)
(* a time, each from its transaction on; a request may have taken its now  *)
(* at an earlier instant than the requests that ran before it (it was       *)
(* delayed before its transaction, or its instance's clock is behind).      *)

\* cron.list: the registered jobs (src/unnamed/part_000 line 75,
\* src/codereview/load.go line 168).
CronList ==
    <<[name |-> "issue.load", dt |-> 5 * Minute],
      [name |-> "codereview.load", dt |-> 1 * Minute]>>

\* cronHandler, line 118: the task's name, "app.cron."+cr.name.
CronTaskName(cr) ==
    IF cr.name = "issue.load" THEN "app.cron.issue.load" ELSE "app.cron.codereview.load"

\* The instants at which requests to /admin/app/cron arrive.
CronInstants == {Epoch + 100 * Second, Epoch + 140 * Second, Epoch + 400 * Second}

\* time.Time.Round(d): the nearest multiple of d since the zero time, halfway
\* values rounded up.
Round(t, d) ==
    LET r == t % d IN IF r + r < d THEN t - r ELSE t + d - r

\* What a job function returns: nil, ErrMoreCron, or another error, of which
\* one has ErrMoreCron's text.
ErrMoreCron == [id |-> "ErrMoreCron", text |-> "cron job has more work to do"]
NilError == [id |-> "nil", text |-> ""]
JobResults ==
    {NilError, ErrMoreCron,
     [id |-> "errors.New", text |-> "cron job has more work to do"],
     [id |-> "errors.New", text |-> "failed"]}

\* cronExec, line 140: err == ErrMoreCron compares the error values.
IsErrMoreCronByText(err) == err.text = ErrMoreCron.text
IsErrMoreCron(err) == err = ErrMoreCron

\* cronExec, lines 139-153: what it returns to taskpost for the job's result.
cronExec(err) ==
    IF err # NilError /\ IsErrMoreCron(err) THEN "wants to run some more" ELSE "nil"

\* cronHandler, line 116: the job is due.
Due(cr, old, now, force) == Round(now, cr.dt) # Round(old, cr.dt) \/ force

\* cronHandler, line 104: !old.Before(now), the tick is left as it is.
TickKept(old, now) == ~(old < now)

\* A request to /admin/app/cron that is not running.
NoTrigger ==
    [pc |-> "idle", now |-> 0, old |-> 0, force |-> FALSE, idx |-> 0, called |-> FALSE]

CronIdle ==
    /\ cronTime = Absent
    /\ trigger = NoTrigger

\* cronHandler, lines 88-99: a request arrives and takes now.
CronBegin(now, force) ==
    /\ trigger.pc = "idle"
    /\ now <= wall
    /\ trigger' = [NoTrigger EXCEPT !.pc = "txn", !.now = now, !.force = force, !.idx = 1]
    /\ UNCHANGED <<leaseVars, storeVars, loadVars, scanVars, deriveVars, keepVars, dataVars, cronTime, clientVars>>

\* cronHandler, lines 100-108: the transaction commits: old is read (the zero
\* time when there is no record) and now is written when old is before it.
CronTxn ==
    /\ trigger.pc = "txn"
    /\ LET old == IF cronTime = Absent THEN 0 ELSE cronTime
           kept == TickKept(old, trigger.now)
       IN  /\ cronTime' = IF kept THEN cronTime ELSE trigger.now
           /\ trigger' = [trigger EXCEPT !.pc = "list", !.old = old]
    /\ UNCHANGED <<leaseVars, storeVars, loadVars, scanVars, deriveVars, keepVars, dataVars, clientVars>>

\* cronHandler, lines 109-111: the transaction fails and the handler returns.
CronTxnFail ==
    /\ trigger.pc = "txn"
    /\ trigger' = NoTrigger
    /\ UNCHANGED <<leaseVars, storeVars, loadVars, scanVars, deriveVars, keepVars, dataVars, cronTime, clientVars>>

\* cronHandler, lines 115-120: the next entry of the list: a job that is due
\* is handed to Task (task.go, lines 94-146), whose Lock takes the name, or
\* finds it taken, and whose taskqueue.Add creates the task; Task's error is
\* dropped.  After the last entry the handler returns.  The call of Task is one
\* step here: how its steps interleave is the subject of the task specification.
CronNext ==
    /\ trigger.pc = "list"
    /\ LET tr == trigger IN
        IF tr.idx > Len(CronList)
        THEN /\ trigger' = NoTrigger
             /\ UNCHANGED <<lease, tasks, clientVars>>
        ELSE LET cr == CronList[tr.idx]
                 n == CronTaskName(cr)
                 r == TaskLockTxn(lease, n, clock)
             IN  IF ~Due(cr, tr.old, tr.now, tr.force)
                 THEN /\ trigger' = [trigger EXCEPT !.idx = @ + 1]
                      /\ UNCHANGED <<lease, tasks, clientVars>>
                 ELSE /\ r.ok => Len(tasks) < MaxTasks
                      /\ lease' = r.lease
                      /\ tasks' = IF r.ok
                                  THEN Append(tasks, [name |-> n, st |-> "pending", tries |-> 0, last |-> "none"])
                                  ELSE tasks
                      /\ trigger' = [trigger EXCEPT !.called = TRUE, !.idx = @ + 1]
    /\ UNCHANGED <<clock, lockVars, adding, tlast, freed, storeVars, loadVars, scanVars, deriveVars, keepVars, dataVars, cronTime, clientVars>>

\* Task, lines 129-133, called from cronHandler: the transaction of Lock fails
\* and Task returns an error, which cronHandler drops.
CronLockFail ==
    /\ trigger.pc = "list"
    /\ trigger.idx <= Len(CronList)
    /\ LET tr == trigger
           cr == CronList[tr.idx]
       IN  /\ Due(cr, tr.old, tr.now, tr.force)
           /\ trigger' = [trigger EXCEPT !.called = TRUE, !.idx = @ + 1]
    /\ UNCHANGED <<clock, lease, lockVars, taskVars, storeVars, loadVars, scanVars, deriveVars, keepVars, dataVars, cronTime, clientVars>>

\* Task, lines 129-144, called from cronHandler: Lock takes the name and
\* taskqueue.Add fails: Task returns the error and the lease on the name stays.
CronAddFail ==
    /\ trigger.pc = "list"
    /\ trigger.idx <= Len(CronList)
    /\ LET tr == trigger
           cr == CronList[tr.idx]
           r == TaskLockTxn(lease, CronTaskName(cr), clock)
       IN  /\ Due(cr, tr.old, tr.now, tr.force)
           /\ r.ok
           /\ lease' = r.lease
           /\ trigger' = [trigger EXCEPT !.called = TRUE, !.idx = @ + 1]
    /\ UNCHANGED <<clock, lockVars, taskVars, storeVars, loadVars, scanVars, deriveVars, keepVars, dataVars, cronTime, clientVars>>

\* The queue deletes a task that is answered 200 or has used up its retries.
Ended(t) == t.st \in {"dropped", "panicked", "done"}
Forget(q) == SelectSeq(q, LAMBDA t : ~Ended(t))

\* taskpost, lines 152-182: the queue delivers task i; the handler takes the
\* TaskExec lease, or answers 406 when it cannot.
CronDeliver(i) ==
    /\ i \in DOMAIN tasks
    /\ tasks[i].st = "pending"
    /\ LET r == ExecLockTxn(lease, tasks[i].name, clock) IN
        /\ lease' = r.lease
        /\ tasks' = Forget([tasks EXCEPT ![i] =
                                IF r.ok THEN [@ EXCEPT !.st = "running"] ELSE Retried(@)])
    /\ UNCHANGED <<clock, lockVars, adding, tlast, freed, storeVars, loadVars, cronVars, deriveVars, keepVars, dataVars, scanVars, clientVars>>

\* taskpost, line 178, the transaction of Lock fails: 406.
CronDeliverFail(i) ==
    /\ i \in DOMAIN tasks
    /\ tasks[i].st = "pending"
    /\ tasks' = Forget([tasks EXCEPT ![i] = Retried(@)])
    /\ UNCHANGED <<clock, lease, lockVars, adding, tlast, freed, storeVars, loadVars, cronVars, deriveVars, keepVars, dataVars, scanVars, clientVars>>

\* taskpost, lines 204-216, running cronExec: the job function returns err.
\* When cronExec returns an error the handler answers 406, its deferred Unlock
\* releases TaskExec and the queue tries the task again; otherwise the handler
\* releases the name.
CronRun(i, err) ==
    /\ i \in DOMAIN tasks
    /\ tasks[i].st = "running"
    /\ IF cronExec(err) # "nil"
       THEN /\ lease' = ExecDoneLease(lease, tasks[i].name)
            /\ tasks' = Forget([tasks EXCEPT ![i] = Retried([@ EXCEPT !.last = err.id])])
       ELSE /\ lease' = TaskDoneLease(lease, tasks[i].name)
            /\ tasks' = [tasks EXCEPT ![i] = [@ EXCEPT !.st = "succeeded", !.last = err.id]]
    /\ UNCHANGED <<clock, lockVars, adding, tlast, freed, storeVars, loadVars, cronVars, deriveVars, keepVars, dataVars, scanVars, clientVars>>

\* taskpost, lines 183-188: the job function panics; the deferred function
\* recovers and releases TaskExec, and the handler answers 200, which ends the
\* task; the lease on the task's name stays.
CronPanic(i) ==
    /\ i \in DOMAIN tasks
    /\ tasks[i].st = "running"
    /\ lease' = ExecDoneLease(lease, tasks[i].name)
    /\ tasks' = Forget([tasks EXCEPT ![i].st = "panicked"])
    /\ UNCHANGED <<clock, lockVars, adding, tlast, freed, storeVars, loadVars, cronVars, deriveVars, keepVars, dataVars, scanVars, clientVars>>

\* taskpost, lines 183-188 after line 216: the deferred Unlock of TaskExec on
\* the successful path; the handler answers 200.
CronReturn(i) ==
    /\ i \in DOMAIN tasks
    /\ tasks[i].st = "succeeded"
    /\ lease' = ExecDoneLease(lease, tasks[i].name)
    /\ tasks' = Forget([tasks EXCEPT ![i].st = "done"])
    /\ UNCHANGED <<clock, lockVars, adding, tlast, freed, storeVars, loadVars, cronVars, deriveVars, keepVars, dataVars, scanVars, clientVars>>

NextCron ==
    \/ \E t \in CronInstants : Pass(t)
    \/ \E now \in CronInstants, force \in BOOLEAN : CronBegin(now, force)
    \/ CronTxn
    \/ CronTxnFail
    \/ CronNext
    \/ CronLockFail
    \/ CronAddFail
    \/ \E i \in 1 .. MaxTasks : CronDeliver(i)
    \/ \E i \in 1 .. MaxTasks : CronDeliverFail(i)
    \/ \E i \in 1 .. MaxTasks, err \in JobResults : CronRun(i, err)
    \/ \E i \in 1 .. MaxTasks : CronPanic(i)
    \/ \E i \in 1 .. MaxTasks : CronReturn(i)

-----------------------------------------------------------------------------
(* Scans: ScanData, scanData, scanDataExec (src/app/data.go), the scans     *)
(* codereview.loadmsg and codereview.loadpatch (src/codereview/load.go) and *)
(* RefreshCL (src/codereview/edit.go).  scanData is the job of the cron     *)
(* entry "app.scan."+name; the sweeps are followed one at a time, each from *)
(* its query on.  The leases of the tasks do not expire within a sweep.     *)

\* A CL as load leaves it when it sees it first: no messages, no patches.
FreshCL(k) ==
    [ZeroCL EXCEPT !.stored = TRUE, !.CL = k, !.Desc = "a", !.Modified = 1, !.PatchSets = 1]

\* The queries of the scans: Filter("MessagesLoaded =", false) and
\* Filter("PatchSetsLoaded =", false) on the stored records of kind "CL".
Matches(c, name, k) ==
    /\ c[k].stored
    /\ IF name = "codereview.loadmsg" THEN ~c[k].MessagesLoaded ELSE ~c[k].PatchSetsLoaded

\* scanData, line 349: q.Limit(chunk).KeysOnly().GetAll, the keys in key order.
ScanQuery(c, name) == SelectSeq(ScanKeyList, LAMBDA k : Matches(c, name, k))

\* The handler of a scan, run to its end on key k with the server answering
\* (ok) or failing: loadmsg merges the CL fetched with its messages through
\* writeCL, loadpatch marks the patch sets loaded; a handler that fails leaves
\* the store as it is.
ScanHandler(c, n, p, name, k, ok) ==
    IF ~ok THEN c
    ELSE IF name = "codereview.loadmsg"
    THEN WriteCLTxn(c, n, p,
                    [CL |-> k, Desc |-> c[k].Desc, Modified |-> c[k].Modified, Dead |-> FALSE,
                     MessagesLoaded |-> TRUE, PatchSets |-> c[k].PatchSets], "", 0).cls
    ELSE [c EXCEPT ![k] = updateCL([ReadCL(c, k) EXCEPT !.PatchSetsLoaded = TRUE])]

\* The CLs that the requests to /admin/codereview/refresh name.
RefreshKeys == {"c1"}

NoSweep == [pc |-> "idle", name |-> "", keys |-> <<>>]

ScanIdle ==
    /\ sweep = NoSweep
    /\ manual = {}

\* The task scanData creates: its name and its arguments (name, kind, key).
ScanTask(name, k) ==
    [name |-> ScanTaskName(name, "CL", k), st |-> "pending", tries |-> 0, scan |-> name, key |-> k]

\* The sweep after it has handed the first of its keys to Task.
SweepRest(sw) == IF Len(sw.keys) = 1 THEN NoSweep ELSE [sw EXCEPT !.keys = Tail(@)]

\* scanData, lines 345-353: a sweep of the scan starts and its query returns
\* the matching keys; with no key the sweep is over.
ScanBegin(name) ==
    /\ sweep.pc = "idle"
    /\ LET keys == ScanQuery(cls, name) IN
        sweep' = IF keys = <<>> THEN NoSweep ELSE [pc |-> "tasks", name |-> name, keys |-> keys]
    /\ UNCHANGED <<leaseVars, storeVars, loadVars, cronVars, deriveVars, keepVars, dataVars, manual, clientVars>>

\* scanData, lines 349-353: the query fails and scanData returns.
ScanQueryFail(name) ==
    /\ sweep.pc = "idle"
    /\ UNCHANGED <<leaseVars, syncVars>>

\* scanData, lines 356-358: the next key is handed to Task (task.go, lines
\* 94-146), whose Lock takes the task's name, or finds it taken, and whose
\* taskqueue.Add creates the task; Task's error is dropped.
ScanNext(k) ==
    /\ sweep.pc = "tasks"
    /\ k = Head(sweep.keys)
    /\ LET r == TaskLockTxn(lease, ScanTaskName(sweep.name, "CL", k), clock) IN
        /\ r.ok => Len(tasks) < MaxTasks
        /\ lease' = r.lease
        /\ tasks' = IF r.ok THEN Append(tasks, ScanTask(sweep.name, k)) ELSE tasks
        /\ tlast' = [name |-> ScanTaskName(sweep.name, "CL", k), ret |-> IF r.ok THEN "nil" ELSE "err"]
    /\ sweep' = SweepRest(sweep)
    /\ UNCHANGED <<clock, lockVars, adding, freed, storeVars, loadVars, cronVars, deriveVars, keepVars, dataVars, manual, clientVars>>

\* Task, lines 129-133, called from scanData: the transaction of Lock fails.
ScanLockFail(k) ==
    /\ sweep.pc = "tasks"
    /\ k = Head(sweep.keys)
    /\ sweep' = SweepRest(sweep)
    /\ tlast' = [name |-> ScanTaskName(sweep.name, "CL", k), ret |-> "err"]
    /\ UNCHANGED <<clock, lease, lockVars, adding, tasks, freed, storeVars, loadVars, cronVars, deriveVars, keepVars, dataVars, manual, clientVars>>

\* Task, lines 129-144, called from scanData: Lock takes the name and
\* taskqueue.Add fails: the lease on the name stays.
ScanAddFail(k) ==
    /\ sweep.pc = "tasks"
    /\ k = Head(sweep.keys)
    /\ LET r == TaskLockTxn(lease, ScanTaskName(sweep.name, "CL", k), clock) IN
        /\ r.ok
        /\ lease' = r.lease
    /\ sweep' = SweepRest(sweep)
    /\ tlast' = [name |-> ScanTaskName(sweep.name, "CL", k), ret |-> "err"]
    /\ UNCHANGED <<clock, lockVars, adding, tasks, freed, storeVars, loadVars, cronVars, deriveVars, keepVars, dataVars, manual, clientVars>>

\* taskpost, lines 204-216, running scanDataExec (data.go, lines 365-379): the
\* scan's handler runs on the task's key; its error is logged, scanDataExec
\* returns nothing, and taskpost releases the task's name.
ScanRun(i, ok) ==
    /\ i \in DOMAIN tasks
    /\ tasks[i].st = "running"
    /\ cls' = ScanHandler(cls, count, ckpt, tasks[i].scan, tasks[i].key, ok)
    /\ mlast' = NoMerge
    /\ lease' = TaskDoneLease(lease, tasks[i].name)
    /\ tasks' = [tasks EXCEPT ![i].st = "succeeded"]
    /\ UNCHANGED <<clock, lockVars, adding, tlast, freed, issues, count, ckpt, patching,
                   loadVars, cronVars, deriveVars, keepVars, dataVars, scanVars, clientVars>>

\* refresh and RefreshCL (edit.go, lines 74-80): a request to
\* /admin/codereview/refresh starts loadmsg on the CL it names.
RefreshBegin(k) ==
    /\ k \notin manual
    /\ manual' = manual \cup {k}
    /\ UNCHANGED <<leaseVars, storeVars, loadVars, cronVars, deriveVars, keepVars, dataVars, sweep, clientVars>>

\* ... and its loadmsg ends.
RefreshEnd(k, ok) ==
    /\ k \in manual
    /\ manual' = manual \ {k}
    /\ cls' = IF cls[k].stored THEN ScanHandler(cls, count, ckpt, "codereview.loadmsg", k, ok) ELSE cls
    /\ mlast' = NoMerge
    /\ UNCHANGED <<leaseVars, issues, count, ckpt, patching, loadVars, cronVars, deriveVars, keepVars, dataVars, sweep, clientVars>>

NextScan ==
    \/ \E name \in Scans : ScanBegin(name)
    \/ \E name \in Scans : ScanQueryFail(name)
    \/ \E k \in ScanKeys : ScanNext(k)
    \/ \E k \in ScanKeys : ScanLockFail(k)
    \/ \E k \in ScanKeys : ScanAddFail(k)
    \/ \E i \in 1 .. MaxTasks : CronDeliver(i)
    \/ \E i \in 1 .. MaxTasks : CronDeliverFail(i)
    \/ \E i \in 1 .. MaxTasks, ok \in BOOLEAN : ScanRun(i, ok)
    \/ \E i \in 1 .. MaxTasks : CronPanic(i)
    \/ \E i \in 1 .. MaxTasks : CronReturn(i)
    \/ \E k \in RefreshKeys : RefreshBegin(k)
    \/ \E k \in RefreshKeys, ok \in BOOLEAN : RefreshEnd(k, ok)

-----------------------------------------------------------------------------
(* The derived fields of a CL: updateCL, parseMessages, isReviewer and      *)
(* expandReviewer (src/unnamed/part_008).  A message is modelled by what the *)
(* regular expressions of parseMessages find in its text; a repository by   *)
(* its host prefix and its name; a description by its lines, each with its  *)
(* length in bytes and the issue numbers issueRE finds in it; times are     *)
(* hours.  The full records are derived here; the merges of the store use   *)
(* updateCL's effect on the fields they follow.                             *)

\* The longest list of messages of a CL.
MaxMessages == 2
\* updateCL, lines 110-112: the summary is cut at 100 bytes.
SummaryLimit == 100
\* updateCL, line 72: 365*24*time.Hour, in hours.
ActiveAge == 365 * 24

\* sort.Strings: the strings of the model in byte order.
StringOrder == <<"10", "9", "adg@golang.org", "r@golang.org", "r@google.com">>
Rank(x) == CHOOSE i \in DOMAIN StringOrder : StringOrder[i] = x

RECURSIVE SortStrings(_)
SortStrings(q) ==
    IF q = <<>> THEN <<>>
    ELSE LET i == CHOOSE j \in DOMAIN q : \A k \in DOMAIN q : Rank(q[j]) <= Rank(q[k])
         IN  <<q[i]>> \o SortStrings(SubSeq(q, 1, i - 1) \o SubSeq(q, i + 1, Len(q)))

RECURSIVE SetToSeq(_)
SetToSeq(S) == IF S = {} THEN <<>> ELSE LET x == CHOOSE y \in S : TRUE IN <<x>> \o SetToSeq(S \ {x})

\* stringKeys, lines 229-236: the keys of a map, sorted.
stringKeys(S) == SortStrings(SetToSeq(S))

Least(S) == CHOOSE x \in S : \A y \in S : x <= y
Greatest(S) == CHOOSE x \in S : \A y \in S : x >= y

\* committers, lines 238-279: two of its entries, in the list's order.
committers == <<"adg@golang.org", "r@golang.org">>
\* c[:i] for i the index of "@" in c.
LocalPart(c) == IF c = "adg@golang.org" THEN "adg" ELSE "r"

\* isReviewer, lines 285-297: an address @google.com stands for the same
\* name @golang.org.
isReviewer(email) ==
    LET other == IF email = "r@google.com" THEN "r@golang.org" ELSE ""
        I == {i \in DOMAIN committers : committers[i] = email \/ (other # "" /\ committers[i] = other)}
    IN  IF I = {} THEN "" ELSE committers[Least(I)]

\* expandReviewer, lines 303-313, for a name without "@" (the names helloRE
\* and reviewerRE capture hold none).
expandReviewer(short) ==
    LET I == {i \in DOMAIN committers : LocalPart(committers[i]) = short}
    IN  IF I = {} THEN "" ELSE committers[Least(I)]

NoRepo == [host |-> "", name |-> ""]
OwnerEmail == "gopher@example.com"

\* A message: its sender and what the expressions find in its text: verdict
\* (notlgtmRE, else lgtmRE), hello (helloRE's name), repo (helloRepoRE's
\* repository, else "code.google.com/p/" and helloRepoRE2's), submitted
\* ("*** Submitted as"), R (reviewerRE's name), ptal (ptalRE).
Message(sender, verdict, hello, repo, submitted, R, ptal) ==
    [Sender |-> sender, verdict |-> verdict, hello |-> hello, repo |-> repo,
     submitted |-> submitted, R |-> R, ptal |-> ptal]

SampleMessages ==
    {Message(OwnerEmail, "", "r", [host |-> "code.google.com/p/", name |-> "go"], FALSE, "", TRUE),
     Message(OwnerEmail, "", "golang-dev", [host |-> "code.google.com/p/", name |-> "go.tools"],
             FALSE, "", TRUE),
     Message("r@google.com", "LGTM", "", NoRepo, FALSE, "", FALSE),
     Message("adg@golang.org", "NOT LGTM", "", NoRepo, FALSE, "adg", FALSE),
     Message("r@google.com", "", "", NoRepo, TRUE, "", FALSE),
     Message(OwnerEmail, "", "", NoRepo, FALSE, "close", FALSE),
     Message(OwnerEmail, "", "", NoRepo, FALSE, "adg", FALSE),
     Message(OwnerEmail, "", "", NoRepo, FALSE, "golang-dev", FALSE),
     Message(OwnerEmail, "", "", NoRepo, FALSE, "nobody", FALSE),
     Message("adg@golang.org", "LGTM", "", NoRepo, FALSE, "", FALSE)}

Line(text, bytes, found) == [text |-> text, bytes |-> bytes, issues |-> found]

\* The descriptions: none; a summary and a line that names an issue; a blank
\* line and a line of 120 bytes that names issues, one of them twice.
SampleDescs ==
    {<<>>,
     <<Line("fix bug", 7, <<>>), Line("Fixes issue 9.", 14, <<"9">>)>>,
     <<Line("", 0, <<>>), Line("update issue 9, issue 10, issue 9 ...", 120, <<"9", "10", "9">>)>>}

\* The repositories a record holds before it is derived.
PriorRepos ==
    {NoRepo, [host |-> "code.google.com/p/", name |-> "go.net"],
     [host |-> "code.google.com/r/", name |-> "rsc-go"]}

\* strings.HasPrefix(cl.Repo, "code.google.com/p/go.") || cl.Repo == "code.google.com/p/go"
IsGoRepo(r) == r.host = "code.google.com/p/" /\ r.name \in {"go", "go.tools", "go.net"}

\* parseMessages, line 331: cl.Mailed = false before the messages are read.
MailedAtStartKept(cl) == cl.Mailed
MailedAtStart(cl) == FALSE

\* parseMessages, lines 335-343: each verdict of a sender replaces the one
\* before, so the sender's last verdict (among the messages V) stands; the
\* variant keeps the first.
VerdictOfFirst(ms, V) == ms[Least(V)].verdict
VerdictOf(ms, V) == ms[Greatest(V)].verdict

\* parseMessages, lines 376-386: the switch that picks the primary reviewer;
\* the variant asks the initial reviewer before the explicit one.
SelectPrimaryInitialFirst(submitted, LGTM, explicitReviewer, initialReviewer, firstResponder) ==
    IF submitted /\ Len(LGTM) > 0 THEN LGTM[1]
    ELSE IF initialReviewer # "" THEN initialReviewer
    ELSE IF explicitReviewer # "" THEN explicitReviewer
    ELSE firstResponder
SelectPrimary(submitted, LGTM, explicitReviewer, initialReviewer, firstResponder) ==
    IF submitted /\ Len(LGTM) > 0 THEN LGTM[1]
    ELSE IF explicitReviewer # "" THEN explicitReviewer
    ELSE IF initialReviewer # "" THEN initialReviewer
    ELSE firstResponder

\* parseMessages, lines 316-407.
parseMessages(cl) ==
    LET ms == cl.Messages
        D == DOMAIN ms
        Senders == {ms[i].Sender : i \in D}
        Verdicts(x) == {i \in D : ms[i].Sender = x /\ isReviewer(x) # "" /\ ms[i].verdict # ""}
        lgtm == {x \in Senders : Verdicts(x) # {} /\ VerdictOf(ms, Verdicts(x)) = "LGTM"}
        notlgtm == {x \in Senders : Verdicts(x) # {} /\ VerdictOf(ms, Verdicts(x)) = "NOT LGTM"}
        Hellos == {i \in D : ms[i].hello # ""}
        Initials == {i \in Hellos : expandReviewer(ms[i].hello) # ""}
        initialReviewer == IF Initials = {} THEN "" ELSE expandReviewer(ms[Greatest(Initials)].hello)
        Repos == {i \in D : ms[i].repo # NoRepo}
        explicitOf(m) ==
            IF m.R = "close" THEN "close"
            ELSE IF m.R \in {"golang-dev", "golang-codereviews"} THEN "golang-dev"
            ELSE expandReviewer(m.R)
        Explicits == {i \in D : ms[i].R # "" /\ explicitOf(ms[i]) # ""}
        explicitReviewer == IF Explicits = {} THEN "" ELSE explicitOf(ms[Greatest(Explicits)])
        Responders ==
            {i \in D : /\ isReviewer(ms[i].Sender) # ""
                       /\ ms[i].Sender # cl.OwnerEmail
                       /\ isReviewer(cl.OwnerEmail) # isReviewer(ms[i].Sender)}
        firstResponder == IF Responders = {} THEN "" ELSE isReviewer(ms[Least(Responders)].Sender)
        Submitted == \E i \in D : ms[i].submitted
        LGTM == stringKeys(lgtm)
        primary == SelectPrimary(Submitted, LGTM, explicitReviewer, initialReviewer, firstResponder)
        PrimaryReviewer == IF primary = "golang-dev" THEN "" ELSE primary
        Marks == {i \in D : ms[i].ptal \/ ms[i].Sender = PrimaryReviewer}
    IN  [cl EXCEPT
            !.Mailed = MailedAtStart(cl) \/ Hellos # {},
            !.Submitted = Submitted,
            !.Repo = IF cl.Repo # NoRepo \/ Repos = {} THEN cl.Repo ELSE ms[Least(Repos)].repo,
            !.LGTM = LGTM,
            !.NOTLGTM = stringKeys(notlgtm),
            !.PrimaryReviewer = PrimaryReviewer,
            !.NeedsReview = IF Submitted THEN Len(LGTM) = 0
                            ELSE Marks # {} /\ ms[Greatest(Marks)].Sender # PrimaryReviewer]

RECURSIVE Flatten(_)
Flatten(qs) == IF qs = <<>> THEN <<>> ELSE Head(qs) \o Flatten(Tail(qs))

\* The issues of q that are not in seen, each once, in q's order.
RECURSIVE Unmailed(_, _)
Unmailed(q, seen) ==
    IF q = <<>> THEN <<>>
    ELSE IF Head(q) \in seen THEN Unmailed(Tail(q), seen)
    ELSE <<Head(q)>> \o Unmailed(Tail(q), seen \cup {Head(q)})

\* strings.TrimSpace, as far as lines go: the blank lines at both ends go.
RECURSIVE TrimSpace(_)
TrimSpace(d) ==
    IF d = <<>> THEN d
    ELSE IF Head(d).bytes = 0 THEN TrimSpace(Tail(d))
    ELSE IF d[Len(d)].bytes = 0 THEN TrimSpace(SubSeq(d, 1, Len(d) - 1))
    ELSE d

\* updateCL, lines 106-113: the first line of the description, cut.
SummaryOf(desc) ==
    LET d == TrimSpace(desc) IN
        IF d = <<>> THEN [text |-> "", bytes |-> 0]
        ELSE [text |-> d[1].text,
              bytes |-> IF d[1].bytes > SummaryLimit THEN SummaryLimit ELSE d[1].bytes]

\* updateCL, lines 97-100: a dead CL counts as loaded, so that the scans leave
\* it alone; the variant leaves the flags as they are.
DeadLoadedKept(cl, loaded) == loaded
DeadLoaded(cl, loaded) == IF cl.Dead THEN TRUE ELSE loaded

\* updateCL, lines 71-73: the value of Active; the variant leaves out the
\* "close" sentinel.
IsActiveIgnoringSentinel(cl, hasReviewers, now) ==
    /\ cl.Mailed /\ hasReviewers /\ ~cl.Closed /\ ~cl.Submitted /\ ~cl.Dead
    /\ now - cl.Modified < ActiveAge
IsActive(cl, hasReviewers, now) ==
    /\ cl.Mailed /\ hasReviewers /\ ~cl.Closed /\ ~cl.Submitted /\ ~cl.Dead
    /\ now - cl.Modified < ActiveAge
    /\ cl.PrimaryReviewer # "close"

\* updateCL, lines 69-114, after parseMessages: the fields derived from the
\* fields of cl at the instant now.
updateCLDerived(cl, now) ==
    LET HasReviewers == Len(cl.Reviewers) > 0
        Active == IsActive(cl, HasReviewers, now)
        DescIssue == SortStrings(Flatten([i \in DOMAIN cl.Desc |-> cl.Desc[i].issues]))
        MailedIssue == SortStrings(cl.MailedIssue)
    IN  [cl EXCEPT
            !.HasReviewers = HasReviewers,
            !.Active = Active,
            !.DescIssue = DescIssue,
            !.MailedIssue = MailedIssue,
            !.NeedMailIssue =
                IF Active
                THEN SortStrings(Unmailed(DescIssue, {MailedIssue[i] : i \in DOMAIN MailedIssue}))
                ELSE <<>>,
            !.MessagesLoaded = DeadLoaded(cl, @),
            !.PatchSetsLoaded = DeadLoaded(cl, @),
            !.Repo = IF IsGoRepo(cl.Repo) THEN [@ EXCEPT !.host = ""] ELSE @,
            !.Summary = SummaryOf(cl.Desc)]

\* updateCL, lines 67-114, run at the instant now.
updateCLFields(cl0, now) == updateCLDerived(parseMessages(cl0), now)

\* The fields of a CL that the server or a loader sets ...
RawCLs ==
    {[CL |-> "c1", Desc |-> d, OwnerEmail |-> OwnerEmail, Modified |-> m, Messages |-> <<>>,
      Reviewers |-> r, Closed |-> f[1], Dead |-> f[2], MessagesLoaded |-> TRUE,
      PatchSetsLoaded |-> FALSE, MailedIssue |-> mi] :
        d \in SampleDescs, m \in {11000, 19976}, r \in {<<>>, <<"r@golang.org">>},
        f \in {<<FALSE, FALSE>>, <<TRUE, FALSE>>, <<FALSE, TRUE>>}, mi \in {<<>>, <<"9">>}}

\* ... and the fields that updateCL sets: as in a record never derived, and
\* as left over from some other state of the record.
DerivedNames ==
    {"Repo", "Mailed", "Submitted", "LGTM", "NOTLGTM", "PrimaryReviewer", "NeedsReview",
     "HasReviewers", "Active", "Summary", "DescIssue", "NeedMailIssue"}

ZeroDerived(repo) ==
    [Repo |-> repo, Mailed |-> FALSE, Submitted |-> FALSE, LGTM |-> <<>>, NOTLGTM |-> <<>>,
     PrimaryReviewer |-> "", NeedsReview |-> FALSE, HasReviewers |-> FALSE, Active |-> FALSE,
     Summary |-> [text |-> "", bytes |-> 0], DescIssue |-> <<>>, NeedMailIssue |-> <<>>]

StaleDerived(repo) ==
    [Repo |-> repo, Mailed |-> TRUE, Submitted |-> TRUE, LGTM |-> <<"adg@golang.org">>,
     NOTLGTM |-> <<"r@google.com">>, PrimaryReviewer |-> "close", NeedsReview |-> TRUE,
     HasReviewers |-> TRUE, Active |-> TRUE, Summary |-> [text |-> "old", bytes |-> 3],
     DescIssue |-> <<"10">>, NeedMailIssue |-> <<"10">>]

\* A record: raw fields and derived fields.
WithDerived(raw, derived) == raw @@ derived
Derived(cl) == [f \in DerivedNames |-> cl[f]]

NoPair == [pc |-> "idle"]

DeriveIdle == pair = NoPair

\* The instants at which updateCL runs, in hours.
DeriveInstants == {20000}

\* A message arrives (loadmsg stores the CL's messages): both records get it.
AddMessage(m) ==
    /\ pair.pc # "idle"
    /\ Len(pair.a.Messages) < MaxMessages
    /\ pair' = [pair EXCEPT !.pc = "stored",
                            !.a.Messages = Append(@, m),
                            !.b.Messages = Append(@, m)]
    /\ UNCHANGED <<leaseVars, storeVars, loadVars, cronVars, scanVars, keepVars, dataVars, clientVars>>

\* updateCL runs on both records (ReadData and WriteData run the updater of
\* the kind on every record they read or write).
Derive(now) ==
    /\ pair.pc = "stored"
    /\ pair' = [pc |-> "derived",
                a |-> updateCLFields(pair.a, now),
                b |-> updateCLFields(pair.b, now),
                ra |-> pair.a.Repo,
                rb |-> pair.b.Repo,
                at |-> now]
    /\ UNCHANGED <<leaseVars, storeVars, loadVars, cronVars, scanVars, keepVars, dataVars, clientVars>>

NextDerive ==
    \/ \E m \in SampleMessages : AddMessage(m)
    \/ \E now \in DeriveInstants : Derive(now)

\* ---------------------------------------------------------------------------
\* One CL with all of its fields: writeCL, loadmsg, loadpatch and mailissue of
\* codereview/load.go, each write going through app.WriteData and each read
\* through app.ReadData, which run updateCL.

\* loadpatch, lines 383-386: the list of files is cut at 100 names.
FilesLimit == 100

\* A list of file names: its first name and its length.
FileList(first, n) == [first |-> first, len |-> n]
NoFiles == FileList("", 0)

\* The zero CL, what ReadData leaves in old when there is no record.
ZeroKept ==
    [CL |-> "", Desc |-> <<>>, OwnerEmail |-> "", Modified |-> 0, Messages |-> <<>>,
     Reviewers |-> <<>>, Closed |-> FALSE, Dead |-> FALSE, MessagesLoaded |-> FALSE,
     PatchSetsLoaded |-> FALSE, MailedIssue |-> <<>>, PatchSets |-> <<>>, Files |-> NoFiles,
     MoreFiles |-> FALSE, FilesModified |-> 0, Delta |-> 0]
    @@ ZeroDerived(NoRepo)

\* jsonCL.toCL, lines 53-72: the CL the server describes.
toFullCL(desc, modified, reviewers, closed, patchsets, messages) ==
    [ZeroKept EXCEPT !.CL = "c1", !.Desc = desc, !.OwnerEmail = OwnerEmail,
                     !.Modified = modified, !.Reviewers = reviewers, !.Closed = closed,
                     !.PatchSets = patchsets, !.Messages = messages]

\* The states of the CL on the server: under review; with a second patch
\* set; closed; last modified more than a year ago.
ServerCLs ==
    LET fixes == CHOOSE d \in SampleDescs : Len(d) = 2 /\ d[1].bytes > 0
        updates == CHOOSE d \in SampleDescs : Len(d) = 2 /\ d[1].bytes = 0
    IN  {toFullCL(fixes, 19976, <<"r@golang.org">>, FALSE, <<"1">>, <<>>),
         toFullCL(updates, 19976, <<"r@golang.org">>, FALSE, <<"1", "2">>, <<>>),
         toFullCL(fixes, 19976, <<"r@golang.org">>, TRUE, <<"1">>, <<>>),
         toFullCL(fixes, 11000, <<"r@golang.org">>, FALSE, <<"1">>, <<>>)}

\* The messages of the CL on the server: a mail, a reply, a submission.
SampleThreads ==
    LET hello == Message(OwnerEmail, "", "r", [host |-> "code.google.com/p/", name |-> "go"],
                         FALSE, "", TRUE)
        lgtm == Message("r@google.com", "LGTM", "", NoRepo, FALSE, "", FALSE)
        submitted == Message("r@google.com", "", "", NoRepo, TRUE, "", FALSE)
    IN  {<<>>, <<hello>>, <<hello, lgtm, submitted>>}

\* loadmsg, lines 321-324: the tombstone of a CL the server no longer has.
Tombstone == [ZeroKept EXCEPT !.CL = "c1", !.Dead = TRUE]

\* What load hands to writeCL (the search result as toCL returns it) ...
LoadResults == ServerCLs
\* ... and what loadmsg does (lines 329-331: the CL with its messages, marked
\* MessagesLoaded; lines 320-325: the tombstone).
MsgResults ==
    {[cl EXCEPT !.Messages = ms, !.MessagesLoaded = TRUE] : cl \in ServerCLs, ms \in SampleThreads}
        \cup {Tombstone}

\* The last patch set loadpatch fetched: its files, its Modified, the lines it
\* adds and removes and the repository its message names.
Patch(files, modified, delta, repo) ==
    [Files |-> files, Modified |-> modified, delta |-> delta, repo |-> repo]

SamplePatches ==
    {Patch(FileList("a.go", 1), 19000, 3, NoRepo),
     Patch(FileList("b.go", FilesLimit + 1), 19500, 7,
           [host |-> "code.google.com/p/", name |-> "go.tools"])}

\* app.ReadData, lines 156-170, inside writeCL, loadpatch and mailissue: the
\* stored record with updateCL run on it, or the zero CL.
ReadKept(now) == IF keep.stored THEN updateCLFields(keep.cl, now) ELSE ZeroKept

\* writeCL, lines 258-283, with every field of the record; the variant resets
\* the files with the patch sets.
CopyCLFieldsDroppingFiles(old, cl) ==
    IF cl.Dead THEN [old EXCEPT !.Dead = TRUE]
    ELSE [old EXCEPT
            !.Dead = FALSE,
            !.CL = cl.CL,
            !.Desc = cl.Desc,
            !.OwnerEmail = cl.OwnerEmail,
            !.Modified = cl.Modified,
            !.MessagesLoaded = cl.MessagesLoaded,
            !.Messages = IF cl.MessagesLoaded THEN cl.Messages ELSE @,
            !.Submitted = IF cl.MessagesLoaded THEN cl.Submitted ELSE @,
            !.Reviewers = cl.Reviewers,
            !.Closed = cl.Closed,
            !.PatchSets = cl.PatchSets,
            !.PatchSetsLoaded = IF old.PatchSets # cl.PatchSets THEN FALSE ELSE @,
            !.Files = IF old.PatchSets # cl.PatchSets THEN NoFiles ELSE @]

CopyCLFields(old, cl) ==
    IF cl.Dead THEN [old EXCEPT !.Dead = TRUE]
    ELSE [old EXCEPT
            !.Dead = FALSE,
            !.CL = cl.CL,
            !.Desc = cl.Desc,
            !.OwnerEmail = cl.OwnerEmail,
            !.Modified = cl.Modified,
            !.MessagesLoaded = cl.MessagesLoaded,
            !.Messages = IF cl.MessagesLoaded THEN cl.Messages ELSE @,
            !.Submitted = IF cl.MessagesLoaded THEN cl.Submitted ELSE @,
            !.Reviewers = cl.Reviewers,
            !.Closed = cl.Closed,
            !.PatchSets = cl.PatchSets,
            !.PatchSetsLoaded = IF old.PatchSets # cl.PatchSets THEN FALSE ELSE @]

NoWrite == [op |-> "none", loaded |-> FALSE, dead |-> FALSE, ret |-> "nil"]
NotPatching == [on |-> FALSE, sets |-> <<>>]

KeepIdle ==
    keep = [stored |-> FALSE, cl |-> ZeroKept, patching |-> NotPatching, last |-> NoWrite]

\* writeCL, lines 243-297, as far as the record goes: the transaction reads the
\* record, refuses a CL older than the stored one, copies and writes.
KeepWriteCL(op, cl, now) ==
    \E old \in {ReadKept(now)} :
    \E stale \in {~cl.Dead /\ old.Modified > cl.Modified} :
    \E copied \in {CopyCLFields(old, cl)} :
    \E new \in {IF stale THEN keep.cl ELSE updateCLFields(copied, now)} :
        /\ keep' = [keep EXCEPT
                      !.stored = IF stale THEN @ ELSE TRUE,
                      !.cl = new,
                      !.last = [op |-> op, loaded |-> cl.MessagesLoaded, dead |-> cl.Dead,
                                ret |-> IF stale THEN "err" ELSE "nil"]]
        /\ UNCHANGED <<leaseVars, storeVars, loadVars, cronVars, scanVars, deriveVars, dataVars, clientVars>>

\* load, lines 218-224: one CL of a search result is merged.
KeepLoad(cl, now) == KeepWriteCL("load", cl, now)

\* loadmsg, lines 313-333.
KeepLoadMsg(cl, now) == KeepWriteCL("loadmsg", cl, now)

\* writeCL, lines 244-295: the transaction fails (ReadData, WriteData or the
\* commit) and nothing is written.
KeepWriteFail(op) ==
    /\ keep' = [keep EXCEPT !.last = [op |-> op, loaded |-> FALSE, dead |-> FALSE, ret |-> "err"]]
    /\ UNCHANGED <<leaseVars, storeVars, loadVars, cronVars, scanVars, deriveVars, dataVars, clientVars>>

\* loadpatch, lines 343-351: the record is read outside the transaction.
KeepPatchRead(now) ==
    \E old \in {ReadKept(now)} :
        /\ keep.stored
        /\ ~keep.patching.on
        /\ ~old.PatchSetsLoaded
        /\ old.PatchSets # <<>>
        /\ keep' = [keep EXCEPT !.patching = [on |-> TRUE, sets |-> old.PatchSets]]
        /\ UNCHANGED <<leaseVars, storeVars, loadVars, cronVars, scanVars, deriveVars, dataVars, clientVars>>

\* loadpatch, lines 353-398: the patch sets are fetched and the transaction
\* stores what the last one says, unless more patch sets have been added.
KeepPatchTxn(p, now, ok) ==
    \E old \in {ReadKept(now)} :
    \E done \in {ok /\ ~(Len(old.PatchSets) > Len(keep.patching.sets))} :
    \E files \in {IF p.Files.len > FilesLimit THEN [p.Files EXCEPT !.len = FilesLimit]
                   ELSE p.Files} :
    \E filled \in {[old EXCEPT
                       !.PatchSetsLoaded = TRUE,
                       !.FilesModified = p.Modified,
                       !.Files = files,
                       !.Delta = p.delta,
                       !.MoreFiles = IF p.Files.len > FilesLimit THEN TRUE ELSE @,
                       !.Repo = IF p.repo # NoRepo THEN p.repo ELSE @]} :
    \E new \in {IF done THEN updateCLFields(filled, now) ELSE keep.cl} :
        /\ keep.patching.on
        /\ keep' = [keep EXCEPT
                      !.patching = NotPatching,
                      !.cl = new,
                      !.last = [op |-> "loadpatch", loaded |-> FALSE, dead |-> FALSE,
                                ret |-> IF done THEN "nil" ELSE "err"]]
        /\ UNCHANGED <<leaseVars, storeVars, loadVars, cronVars, scanVars, deriveVars, dataVars, clientVars>>

\* loadpatch, lines 356-363: a fetch or the write of a Patch fails.
KeepPatchFail ==
    /\ keep.patching.on
    /\ keep' = [keep EXCEPT !.patching = NotPatching,
                            !.last = [op |-> "loadpatch", loaded |-> FALSE, dead |-> FALSE,
                                      ret |-> "nil"]]
    /\ UNCHANGED <<leaseVars, storeVars, loadVars, cronVars, scanVars, deriveVars, dataVars, clientVars>>

\* mailissue, lines 413-445: a comment is posted on each issue of
\* NeedMailIssue; the ones posted are appended to MailedIssue.
MailIssueRecord(posted, now, ok) ==
    \E cl \in {ReadKept(now)} :
    \E mailed \in {SelectSeq(cl.NeedMailIssue, LAMBDA i : i \in posted)} :
    \E appended \in {[cl EXCEPT !.MailedIssue = @ \o mailed]} :
    \E new \in {IF ok THEN updateCLFields(appended, now) ELSE keep.cl} :
        /\ keep.stored
        /\ Len(cl.NeedMailIssue) > 0
        /\ posted \subseteq {cl.NeedMailIssue[i] : i \in DOMAIN cl.NeedMailIssue}
        /\ keep' = [keep EXCEPT
                      !.cl = new,
                      !.last = [op |-> "mailissue", loaded |-> FALSE, dead |-> FALSE,
                                ret |-> IF ok THEN "nil" ELSE "err"]]

\* mailissue as the record sees it.
KeepMailIssue(posted, now, ok) ==
    /\ MailIssueRecord(posted, now, ok)
    /\ UNCHANGED <<leaseVars, storeVars, loadVars, cronVars, scanVars, deriveVars, dataVars, clientVars>>

\* The issue tracker keeps every comment postIssueComment has posted
\* (login.go, lines 148-197): posted holds the issues that have the comment
\* of the CL, twice the ones that have it more than once.
NoComments == [posted |-> {}, twice |-> {}]
TrackerIdle == tracker = NoComments

\* mailissue with the tracker it posts to.
MailIssuePost(posted, now, ok) ==
    /\ MailIssueRecord(posted, now, ok)
    /\ tracker' = [posted |-> tracker.posted \cup posted,
                   twice |-> tracker.twice \cup (tracker.posted \cap posted)]
    /\ UNCHANGED <<leaseVars, storeVars, loadVars, cronVars, scanVars, deriveVars, dataVars, dirs, auth, rev>>

\* The CL is loaded with its messages and the mail scan, its retries and the
\* admin trigger run mailissue.
NextMail ==
    \/ \E cl \in MsgResults, now \in DeriveInstants : KeepLoadMsg(cl, now)
    \/ \E posted \in SUBSET {"9", "10"}, now \in DeriveInstants, ok \in BOOLEAN :
        MailIssuePost(posted, now, ok)

\* The queries of the three scans, lines 299-311, on the stored record.
SelectedBy(scan) ==
    /\ keep.stored
    /\ CASE scan = "codereview.loadmsg" -> ~keep.cl.MessagesLoaded
         [] scan = "codereview.loadpatch" -> ~keep.cl.PatchSetsLoaded
         [] scan = "codereview.mail" -> keep.cl.Active /\ keep.cl.NeedMailIssue # <<>>

NextKeep ==
    \/ \E cl \in LoadResults, now \in DeriveInstants : KeepLoad(cl, now)
    \/ \E cl \in MsgResults, now \in DeriveInstants : KeepLoadMsg(cl, now)
    \/ \E op \in {"load", "loadmsg"} : KeepWriteFail(op)
    \/ \E now \in DeriveInstants : KeepPatchRead(now)
    \/ \E p \in SamplePatches, now \in DeriveInstants, ok \in BOOLEAN : KeepPatchTxn(p, now, ok)
    \/ KeepPatchFail
    \/ \E posted \in SUBSET {"9", "10"}, now \in DeriveInstants, ok \in BOOLEAN :
        KeepMailIssue(posted, now, ok)

\* ---------------------------------------------------------------------------
(* Data versions and updaters: src/app/data.go *)

\* The dataversion tag of the record type: codereview.CL's is 20.
DataVersion == 20
\* backgroundUpdateKind, line 276: const chunk = 1000, scaled.
UpdateChunk == 2
\* The calls of laterUpdateKind the task queue holds at a time.
MaxLater == 2
\* backgroundUpdateKind, line 265: the lease lasts 15 minutes, in seconds.
UpdateLease == 900

\* The keys of the kind, in the order of the datastore's keys.
DataKeyList == <<"k1", "k2", "k3">>
DataKeys == {DataKeyList[i] : i \in DOMAIN DataKeyList}
KeyIndex(k) == CHOOSE i \in DOMAIN DataKeyList : DataKeyList[i] = k

\* updaters.m[kind]: the updaters registered for the kind, in the order of
\* their registration.  The second one has type func(*Record) error.
Updaters == <<"u1", "u2">>

\* A record: the DV field, the updaters that ran on it since it was last
\* read or filled in (marks) and whether the second updater rejects it (bad).
Record(dv, marks, bad) == [DV |-> dv, marks |-> marks, bad |-> bad]
NoRecord == Record(Absent, <<>>, FALSE)

\* fv.Call, lines 128-135: what an updater returns for a record.
UpdaterFails(u, rec) == u = "u2" /\ rec.bad

\* update, lines 124-136: the updaters run in order until one returns an
\* error.
RECURSIVE applyUpdaters(_, _, _)
applyUpdaters(ups, rec, i) ==
    IF i > Len(ups) THEN [err |-> FALSE, data |-> rec]
    ELSE IF UpdaterFails(ups[i], rec) THEN [err |-> TRUE, data |-> rec]
    ELSE applyUpdaters(ups, [rec EXCEPT !.marks = Append(@, ups[i])], i + 1)

\* update, lines 112-138: DV is set to the tag's value, then the updaters
\* run; the variant stops after the first updater.
updateFirstOnly(rec) ==
    applyUpdaters(SubSeq(Updaters, 1, 1), [rec EXCEPT !.DV = DataVersion, !.marks = <<>>], 1)
update(rec) == applyUpdaters(Updaters, [rec EXCEPT !.DV = DataVersion, !.marks = <<>>], 1)

\* ReadData, lines 156-170, on a table of records: the error and the record
\* the caller gets.  Nothing is written.
ReadData(d, k, ok) ==
    IF ~ok THEN [ret |-> "store", data |-> NoRecord]
    ELSE IF d[k] = NoRecord THEN [ret |-> "nosuchentity", data |-> NoRecord]
    ELSE LET u == update(d[k]) IN [ret |-> IF u.err THEN "updater" ELSE "nil", data |-> u.data]

\* WriteData, lines 174-188: the new table and the error; the variant puts
\* the record whatever update returned.
WriteDataIgnoringUpdater(d, k, rec, ok) ==
    LET u == update(rec) IN
        IF ~ok THEN [ret |-> "store", data |-> d]
        ELSE [ret |-> IF u.err THEN "updater" ELSE "nil", data |-> [d EXCEPT ![k] = u.data]]
WriteData(d, k, rec, ok) ==
    LET u == update(rec) IN
        IF u.err THEN [ret |-> "updater", data |-> d]
        ELSE IF ~ok THEN [ret |-> "store", data |-> d]
        ELSE [ret |-> "nil", data |-> [d EXCEPT ![k] = u.data]]

\* The filter "DV <" dv of the query, line 278; the variant misses the
\* records of the version before.
NeedsUpdateBelowPrevious(rec) == rec # NoRecord /\ rec.DV < DataVersion - 1
NeedsUpdate(rec) == rec # NoRecord /\ rec.DV < DataVersion

\* The keys the query returns, lines 277-281: the records with a smaller DV
\* in the order of the index (by DV, then by key), at most chunk of them.
RECURSIVE InIndexOrder(_, _)
InIndexOrder(d, S) ==
    IF S = {} THEN <<>>
    ELSE LET k == CHOOSE x \in S : \A y \in S :
                      \/ d[x].DV < d[y].DV
                      \/ d[x].DV = d[y].DV /\ KeyIndex(x) <= KeyIndex(y)
         IN  <<k>> \o InIndexOrder(d, S \ {k})

UpdateQuery(d) ==
    LET all == InIndexOrder(d, {k \in DataKeys : NeedsUpdate(d[k])})
    IN  SubSeq(all, 1, IF Len(all) > UpdateChunk THEN UpdateChunk ELSE Len(all))

NoUpdate == [pc |-> "idle", keys |-> <<>>, n |-> 0, numError |-> 0, wrote |-> FALSE]
NoOp == [op |-> "none", bad |-> FALSE, ret |-> "nil"]

DataIdle ==
    /\ data = [k \in DataKeys |-> NoRecord]
    /\ later = 0
    /\ upd = NoUpdate
    /\ dlast = NoOp

\* A client writes a record it has filled in (WriteData).
DataWrite(k, bad, ok) ==
    LET r == WriteData(data, k, Record(0, <<>>, bad), ok) IN
        /\ data' = r.data
        /\ dlast' = [op |-> "write", bad |-> bad, ret |-> r.ret]
        /\ UNCHANGED <<leaseVars, storeVars, loadVars, cronVars, scanVars, deriveVars, keepVars,
                       later, upd, clientVars>>

\* A client reads a record (ReadData).
DataRead(k, ok) ==
    LET r == ReadData(data, k, ok) IN
        /\ dlast' = [op |-> "read", bad |-> ok /\ data[k].bad, ret |-> r.ret]
        /\ UNCHANGED <<leaseVars, storeVars, loadVars, cronVars, scanVars, deriveVars, keepVars,
                       data, later, upd, clientVars>>

\* backgroundUpdate, lines 242-255 (the cron job app.update, every five
\* minutes, and /admin/app/update): one call of laterUpdateKind per kind.
BackgroundUpdate ==
    /\ later < MaxLater
    /\ later' = later + 1
    /\ UNCHANGED <<leaseVars, storeVars, loadVars, cronVars, scanVars, deriveVars, keepVars,
                   data, upd, dlast, clientVars>>

\* backgroundUpdateKind, lines 263-289: the lease is taken and the query run.
UpdateBegin ==
    LET r == LockTxn(lease, UpdateLeaseName, clock, UpdateLease)
        keys == UpdateQuery(data)
    IN  /\ later > 0
        /\ r.ok
        /\ later' = later - 1
        /\ lease' = r.lease
        /\ upd' = [pc |-> "run", keys |-> keys, n |-> Len(keys), numError |-> 0, wrote |-> FALSE]
        /\ UNCHANGED <<clock, lockVars, taskVars, storeVars, loadVars, cronVars, scanVars,
                       deriveVars, keepVars, data, dlast, clientVars>>

\* backgroundUpdateKind, lines 265-268: Lock returns false (the lease is held
\* by a call that is running, or its transaction failed) and the call returns.
UpdateLockFail ==
    /\ later > 0
    /\ later' = later - 1
    /\ UNCHANGED <<leaseVars, storeVars, loadVars, cronVars, scanVars, deriveVars, keepVars,
                   data, upd, dlast, clientVars>>

\* backgroundUpdateKind, lines 282-285 and 269: the query fails; the deferred
\* Unlock runs.
UpdateQueryFail ==
    LET r == LockTxn(lease, UpdateLeaseName, clock, UpdateLease) IN
        /\ later > 0
        /\ r.ok
        /\ later' = later - 1
        /\ lease' = UnlockStore(r.lease, UpdateLeaseName)
        /\ UNCHANGED <<clock, lockVars, taskVars, storeVars, loadVars, cronVars, scanVars,
                       deriveVars, keepVars, data, upd, dlast, clientVars>>

\* backgroundUpdateKind, lines 292-303: the transaction of the next key reads
\* the record and writes it; an error of either, or of the commit, counts.
UpdateKey(ok) ==
    LET k == Head(upd.keys)
        rd == ReadData(data, k, ok)
        wr == WriteData(data, k, rd.data, ok)
        done == rd.ret = "nil" /\ wr.ret = "nil"
    IN  /\ upd.pc = "run"
        /\ upd.keys # <<>>
        /\ data' = IF done THEN wr.data ELSE data
        /\ upd' = [upd EXCEPT !.keys = Tail(@),
                              !.numError = IF done THEN @ ELSE @ + 1,
                              !.wrote = done]
        /\ UNCHANGED <<leaseVars, storeVars, loadVars, cronVars, scanVars, deriveVars, keepVars,
                       later, dlast, clientVars>>

\* backgroundUpdateKind, lines 305-307 and 269: after a full chunk that did
\* not fail whole the function calls itself later; the deferred Unlock runs.
UpdateEnd ==
    /\ upd.pc = "run"
    /\ upd.keys = <<>>
    /\ later' = IF upd.n = UpdateChunk /\ upd.numError < UpdateChunk /\ later < MaxLater
                THEN later + 1 ELSE later
    /\ lease' = UnlockStore(lease, UpdateLeaseName)
    /\ upd' = NoUpdate
    /\ UNCHANGED <<clock, lockVars, taskVars, storeVars, loadVars, cronVars, scanVars,
                   deriveVars, keepVars, data, dlast, clientVars>>

NextUpdate ==
    \/ BackgroundUpdate
    \/ UpdateBegin
    \/ UpdateLockFail
    \/ UpdateQueryFail
    \/ \E ok \in BOOLEAN : UpdateKey(ok)
    \/ UpdateEnd

NextData ==
    \/ NextUpdate
    \/ \E k \in DataKeys, bad \in BOOLEAN, ok \in BOOLEAN : DataWrite(k, bad, ok)
    \/ \E k \in DataKeys, ok \in BOOLEAN : DataRead(k, ok)

\* ---------------------------------------------------------------------------
(* CL.Dirs: src/unnamed/part_008, lines 155-216.  A file is modelled by the *)
(* segments of its directory, a directory name by its segments.            *)

\* The longest list of files of a CL.
MaxFiles == 3
\* Dirs, line 202: counts["test"] -= 10000.
TestPenalty == 10000

\* The directories of the files: the root, src, packages, a command, test
\* and doc.
SampleDirs ==
    {<<>>, <<"src">>, <<"src", "pkg", "net">>, <<"src", "pkg", "net", "http">>,
     <<"src", "cmd", "go">>, <<"test">>, <<"doc">>}

\* cl.Repo as updateCL leaves it.
DirRepos == {"", "go", "go.tools"}

\* The segments of the names in byte order (no segment of the model holds a
\* byte below "/" but the repository, which all names of a CL share).
SegOrder == <<"", "build", "cmd", "doc", "go", "go.tools", "http", "net", "pkg", "src", "test">>
SegRank(x) == CHOOSE i \in DOMAIN SegOrder : SegOrder[i] = x

\* x < y for two names, as strings.
RECURSIVE NameLess(_, _)
NameLess(x, y) ==
    IF x = <<>> THEN y # <<>>
    ELSE IF y = <<>> THEN FALSE
    ELSE IF x[1] = y[1] THEN NameLess(Tail(x), Tail(y))
    ELSE SegRank(x[1]) < SegRank(y[1])

\* strings.TrimPrefix(name, pre+"/").
TrimDirPrefix(name, pre) ==
    IF Len(name) > Len(pre) /\ SubSeq(name, 1, Len(pre)) = pre
    THEN SubSeq(name, Len(pre) + 1, Len(name))
    ELSE name

\* Dirs, lines 174-179: the prefix of the names.
DirPrefix(repo) ==
    IF repo = "go.tools" THEN <<repo>>
    ELSE IF repo # "" /\ repo # "go" THEN <<repo>>
    ELSE <<>>

\* Dirs, lines 182-197: the name a file counts for.
DirName(repo, dir) ==
    LET n1 == TrimDirPrefix(dir, <<"src", "pkg">>)
        n2 == TrimDirPrefix(n1, <<"src">>)
        n3 == IF n2 = <<"src">> THEN <<>> ELSE n2
        prefix == DirPrefix(repo)
    IN  IF prefix = <<>> THEN (IF n3 = <<>> THEN <<"build">> ELSE n3)
        ELSE IF n3 = <<>> THEN prefix \o <<"">>
        ELSE prefix \o n3

\* Dirs, lines 180-203: the map counts.
DirCounts(repo, files) ==
    LET names == {DirName(repo, files[i]) : i \in DOMAIN files}
    IN  [n \in names |->
            Cardinality({i \in DOMAIN files : DirName(repo, files[i]) = n})
                - (IF n = <<"test">> THEN TestPenalty ELSE 0)]

\* dirCounts.Less, lines 164-169; the variant puts the smaller count first.
dirCountsLessAscending(counts, x, y) ==
    IF counts[x] # counts[y] THEN counts[x] < counts[y] ELSE NameLess(x, y)
dirCountsLess(counts, x, y) ==
    IF counts[x] # counts[y] THEN counts[x] > counts[y] ELSE NameLess(x, y)

\* sort.Sort(dirs), line 209, and the names in that order, lines 211-215.
RECURSIVE SortDirs(_, _)
SortDirs(counts, S) ==
    IF S = {} THEN <<>>
    ELSE LET first == CHOOSE x \in S : \A y \in S \ {x} : dirCountsLess(counts, x, y)
         IN  <<first>> \o SortDirs(counts, S \ {first})

Dirs(repo, files) ==
    LET counts == DirCounts(repo, files) IN SortDirs(counts, DOMAIN counts)

NoDirs == [pc |-> "idle", Repo |-> "", Files |-> <<>>, out |-> <<>>]
DirsIdle == dirs = NoDirs

\* The lists of at most n directories.
RECURSIVE FileLists(_)
FileLists(n) ==
    IF n = 0 THEN {<<>>}
    ELSE LET shorter == FileLists(n - 1)
         IN  shorter \cup {Append(f, d) : f \in {g \in shorter : Len(g) = n - 1}, d \in SampleDirs}

\* A call of cl.Dirs() returns.
DirsCall ==
    /\ dirs.pc = "call"
    /\ dirs' = [dirs EXCEPT !.pc = "done", !.out = Dirs(dirs.Repo, dirs.Files)]
    /\ UNCHANGED <<leaseVars, storeVars, loadVars, cronVars, scanVars, deriveVars, keepVars,
                   dataVars, auth, rev, tracker>>

NextDirs == DirsCall

\* ---------------------------------------------------------------------------
(* Rietveld.do: src/codereview/load.go, lines 785-849, with the Auth of *)
(* src/codereview/rietveld/auth.go.                                    *)

\* const maxRetries, line 785.
maxRetries == 3
\* The requests the client sends one after the other, and the logins of the
\* process, other goroutines' included.
MaxDo == 2
MaxLogins == 3

\* The value of the location header: an absolute URL as a list of pieces, or
\* <<>> when the response has none.
NoLocation == <<>>
LoginLocation == <<"https://www.google.com", "/accounts/Service", "Login", "?continue=">>
OtherLocation == <<"https://codereview.appspot.com", "/", "123456">>
Response(sc, location) == [sc |-> sc, location |-> location]

\* strings.Index(s, piece): the offset of the first occurrence, or -1.
PieceIndex(s, piece) ==
    IF \E i \in DOMAIN s : s[i] = piece
    THEN (CHOOSE i \in DOMAIN s : s[i] = piece /\ \A j \in 1 .. i - 1 : s[j] # piece) - 1
    ELSE -1

\* do, line 828: the answers that make the client log in.
NeedsLoginOn401Only(resp) == resp.sc = 401
NeedsLogin(resp) ==
    resp.sc = 401 \/ (resp.sc = 302 /\ PieceIndex(resp.location, "Login") > 0)

\* The server accepts the cookies of the logins it has not expired; a request
\* without cookies (0) is never accepted.
Accepted(cookies) == cookies > 0 /\ cookies >= auth.minValid

\* What r.client.Do returns for a request signed with the cookies: a
\* response, or no response and an error.
DoErr == Response(0, NoLocation)
Answers(cookies) ==
    IF Accepted(cookies)
    THEN {Response(200, NoLocation), Response(302, OtherLocation), DoErr}
    ELSE {Response(401, NoLocation), Response(302, LoginLocation), DoErr}

AllAnswers ==
    {Response(200, NoLocation), Response(302, OtherLocation), Response(401, NoLocation),
     Response(302, LoginLocation), DoErr}

NoAuth ==
    [pc |-> "idle", i |-> 0, now |-> 0, cookies |-> 0, lastLogin |-> 0, issued |-> 0,
     minValid |-> 1, signTime |-> 0, dos |-> 0, log |-> <<>>, resps |-> <<>>, err |-> "nil"]
AuthIdle == auth = NoAuth

AuthFrame ==
    UNCHANGED <<leaseVars, storeVars, loadVars, cronVars, scanVars, deriveVars, keepVars, dataVars,
                dirs, rev, tracker>>

\* do, lines 787-794: a request handler is run.
AuthDo ==
    /\ auth.pc \in {"idle", "done"}
    /\ auth.dos < MaxDo
    /\ auth' = [auth EXCEPT !.pc = "sign", !.i = 0, !.dos = @ + 1, !.log = <<>>,
                            !.resps = <<>>, !.err = "nil"]
    /\ AuthFrame

\* do, line 805, and standardAuth.Sign, auth.go lines 204-220: the request
\* gets the cookies the process holds, and the time of signing is returned.
AuthSign ==
    /\ auth.pc = "sign"
    /\ auth' = [auth EXCEPT !.pc = "sent", !.now = @ + 1, !.signTime = auth.now + 1,
                            !.log = Append(@, [call |-> "Sign", at |-> auth.now + 1,
                                               cookies |-> auth.cookies])]
    /\ AuthFrame

\* The end of one turn of the loop of do, lines 792 and 847-848.
AuthNext(a) == IF a.i + 1 < maxRetries THEN [a EXCEPT !.pc = "sign", !.i = @ + 1]
               ELSE [a EXCEPT !.pc = "done", !.i = @ + 1]

\* do, lines 821-846: the answer to the request.  A failed request and a
\* response the handler cannot process are tried again; after a 401 or a
\* redirection to the login page the client logs in, unless this was the
\* last attempt.
AuthAnswer(resp, processed) ==
    /\ auth.pc = "sent"
    /\ resp \in Answers(auth.log[Len(auth.log)].cookies)
    /\ \E a \in {[auth EXCEPT !.resps = Append(@, resp)]} :
        auth' = IF resp = DoErr THEN AuthNext([a EXCEPT !.err = "request"])
                ELSE IF NeedsLogin(resp)
                THEN IF a.i + 1 = maxRetries THEN [a EXCEPT !.pc = "done", !.err = "server returned"]
                     ELSE [a EXCEPT !.pc = "login"]
                ELSE IF ~processed THEN AuthNext([a EXCEPT !.err = "process"])
                ELSE [a EXCEPT !.pc = "done", !.err = "nil"]
    /\ AuthFrame

\* standardAuth.Login, auth.go lines 99-194: nothing is done when there was
\* a login after the given time; otherwise the cookies of a new session are
\* kept and the time is noted.
LoggedIn(a, after) ==
    IF a.lastLogin > after THEN a
    ELSE [a EXCEPT !.now = @ + 1, !.issued = @ + 1, !.cookies = a.issued + 1,
                   !.lastLogin = a.now + 1]

\* do, lines 834-838: Login with the time the rejected request was signed.
AuthLogin(ok) ==
    /\ auth.pc = "login"
    /\ ok => (auth.lastLogin > auth.signTime \/ auth.issued < MaxLogins)
    /\ \E a \in {IF ok THEN LoggedIn(auth, auth.signTime) ELSE auth} :
        auth' = [a EXCEPT !.pc = IF ok THEN "sign" ELSE "done",
                          !.i = IF ok THEN @ + 1 ELSE @,
                          !.err = IF ok THEN "nil" ELSE "login",
                          !.log = Append(@, [call |-> "Login", at |-> auth.signTime,
                                             cookies |-> a.cookies])]
    /\ AuthFrame

\* Another goroutine that shares the Auth logs in after a rejection of a
\* request it has just signed.
AuthOtherLogin ==
    /\ auth.issued < MaxLogins
    /\ auth' = LoggedIn(auth, auth.now)
    /\ AuthFrame

\* The server ends the sessions it has given out.
AuthExpire ==
    /\ auth.minValid <= auth.issued
    /\ auth' = [auth EXCEPT !.minValid = auth.issued + 1]
    /\ AuthFrame

NextAuth ==
    \/ AuthDo
    \/ AuthSign
    \/ \E resp \in AllAnswers, processed \in BOOLEAN : AuthAnswer(resp, processed)
    \/ \E ok \in BOOLEAN : AuthLogin(ok)
    \/ AuthOtherLogin
    \/ AuthExpire

\* ---------------------------------------------------------------------------
(* loadRevOnce: src/unnamed/part_003, lines 153-296. *)

\* The processes that may run loadRevOnce on the todo at the same time: the
\* cron job's load and the deferred loadRev calls.
RevProcs == {"r1", "r2"}

\* The time that passes between two events, and the number of such passes.
RevSteps == {Minute, 5 * Minute, 24 * Hour}
MaxRevSteps == 3

\* writeTodo, lines 329-338: the todo of a revision that has just been found.
NewTodo(now) == [exists |-> TRUE, Start |-> now, Last |-> now, Time |-> now]
NoTodo == [exists |-> FALSE, Start |-> 0, Last |-> 0, Time |-> 0]

\* Todos that have been polled for a while: Start, the last poll and the
\* interval the last poll chose.
PolledTodo(start, lastPoll, interval) ==
    [exists |-> TRUE, Start |-> start, Last |-> lastPoll, Time |-> lastPoll + interval]

SampleTodos ==
    {NoTodo,
     PolledTodo(0, 10 * Minute, 4 * Minute),
     PolledTodo(0, 48 * Hour, 40 * Minute),
     PolledTodo(0, 200 * Hour, 16 * Hour)}

\* loadRevOnce, line 167: time.Now().Before(todo.Time) makes the call wait.
RevDueAlways(todo, now) == TRUE
RevDue(todo, now) == ~(now < todo.Time)

\* loadRevOnce, lines 171-185: the interval to the next poll.
RevInterval(todo) ==
    LET dtAll == todo.Time - todo.Start
        dtOne == todo.Time - todo.Last
        dtMax == IF dtAll < 24 * Hour THEN 5 * Minute
                 ELSE IF dtAll < 7 * 24 * Hour THEN Hour
                 ELSE 24 * Hour
    IN  IF 2 * dtOne > dtMax THEN dtMax
        ELSE IF 2 * dtOne = 0 THEN Minute
        ELSE 2 * dtOne

\* loadRevOnce, lines 186-187: todo.Last = time.Now(); todo.Time = todo.Last.Add(dtOne).
Rescheduled(todo, now) == [todo EXCEPT !.Last = now, !.Time = now + RevInterval(todo)]

NoRevCall == [proc |-> "", ret |-> "none", at |-> 0]

NoRev ==
    [now |-> 0, steps |-> 0, todo |-> NoTodo, stored |-> FALSE,
     pc |-> [p \in RevProcs |-> "idle"], passed |-> {}, last |-> NoRevCall]
RevIdle == rev = NoRev

RevFrame ==
    UNCHANGED <<leaseVars, storeVars, loadVars, cronVars, scanVars, deriveVars, keepVars, dataVars,
                dirs, auth, tracker>>

\* Time passes.
RevPass(dt) ==
    /\ rev.steps < MaxRevSteps
    /\ rev' = [rev EXCEPT !.now = @ + dt, !.steps = @ + 1]
    /\ RevFrame

\* addTodo, lines 301-317, and writeTodo, lines 319-342, without force: the
\* todo is created unless the Rev or the todo is there already.
RevAddTodo ==
    /\ ~rev.stored
    /\ ~rev.todo.exists
    /\ rev' = [rev EXCEPT !.todo = NewTodo(rev.now)]
    /\ RevFrame

\* loadRev or load calls loadRevOnce on the todo.
RevCall(p) ==
    /\ rev.pc[p] = "idle"
    /\ rev' = [rev EXCEPT !.pc[p] = "txn"]
    /\ RevFrame

\* loadRevOnce, lines 162-198: the scheduling transaction commits, or returns
\* errWait, or finds no todo; in the last two cases the call returns "".
RevTxn(p) ==
    /\ rev.pc[p] = "txn"
    /\ IF ~rev.todo.exists
       THEN rev' = [rev EXCEPT !.pc[p] = "idle",
                               !.last = [proc |-> p, ret |-> "err", at |-> rev.now]]
       ELSE IF ~RevDue(rev.todo, rev.now)
       THEN rev' = [rev EXCEPT !.pc[p] = "idle",
                               !.last = [proc |-> p, ret |-> "wait", at |-> rev.now]]
       ELSE rev' = [rev EXCEPT !.pc[p] = "fetch",
                               !.todo = Rescheduled(@, rev.now),
                               !.passed = @ \cup {rev.todo.Time},
                               !.last = [proc |-> p, ret |-> "pass", at |-> rev.now]]
    /\ RevFrame

\* loadRevOnce, lines 162-198: ReadData, WriteData or the commit fails.
RevTxnFail(p) ==
    /\ rev.pc[p] = "txn"
    /\ rev' = [rev EXCEPT !.pc[p] = "idle",
                          !.last = [proc |-> p, ret |-> "err", at |-> rev.now]]
    /\ RevFrame

\* loadRevOnce, lines 200-204 and 253-256: fetchRev or the update of the Rev
\* fails; the todo stays.
RevFetchFail(p) ==
    /\ rev.pc[p] = "fetch"
    /\ rev' = [rev EXCEPT !.pc[p] = "idle"]
    /\ RevFrame

\* loadRevOnce, lines 206-262 and 291-293: the Rev is stored; it has no
\* successor yet, or a todo of a successor was not stored: the todo stays.
RevNoNext(p) ==
    /\ rev.pc[p] = "fetch"
    /\ rev' = [rev EXCEPT !.pc[p] = "idle", !.stored = TRUE]
    /\ RevFrame

\* loadRevOnce, lines 206-290: the Rev is stored, the todos of its successors
\* are there and the todo is deleted.
RevDone(p) ==
    /\ rev.pc[p] = "fetch"
    /\ rev' = [rev EXCEPT !.pc[p] = "idle", !.stored = TRUE, !.todo = NoTodo]
    /\ RevFrame

NextRev ==
    \/ \E dt \in RevSteps : RevPass(dt)
    \/ RevAddTodo
    \/ \E p \in RevProcs : RevCall(p)
    \/ \E p \in RevProcs : RevTxn(p)
    \/ \E p \in RevProcs : RevTxnFail(p)
    \/ \E p \in RevProcs : RevFetchFail(p)
    \/ \E p \in RevProcs : RevNoNext(p)
    \/ \E p \in RevProcs : RevDone(p)

ClientIdle == DirsIdle /\ AuthIdle /\ RevIdle /\ TrackerIdle

NextTask ==
    \/ \E n \in TaskNames : TaskLock(n)
    \/ \E n \in TaskNames : TaskLockFail(n)
    \/ \E n \in TaskNames : TaskAdd(n)
    \/ \E n \in TaskNames : TaskAddFail(n)
    \/ \E i \in 1 .. MaxTasks : PostLock(i)
    \/ \E i \in 1 .. MaxTasks : PostLockFail(i)
    \/ \E i \in 1 .. MaxTasks : PostFnOK(i)
    \/ \E i \in 1 .. MaxTasks : PostFnErr(i)
    \/ \E i \in 1 .. MaxTasks : PostFnPanic(i)
    \/ \E i \in 1 .. MaxTasks : PostReturn(i)

NextLease ==
    \/ \E name \in LeaseNames, dt \in Durations : LockBegin(name, dt)
    \/ \E c \in BagToSet(calls) : LockCommit(c)
    \/ \E c \in BagToSet(calls) : LockFail(c)
    \/ \E name \in LeaseNames : Unlock(name)
    \/ Tick

vars == <<leaseVars, syncVars>>

InitLease == LeaseInit /\ TaskIdle /\ StoreEmpty /\ CronIdle /\ ScanIdle /\ ClientIdle /\ DeriveIdle /\ KeepIdle /\ DataIdle /\ IssueIdle({}) /\ CRIdle(NoCLs)

SpecLease == InitLease /\ [][NextLease]_vars

InitTask == LeaseInit /\ TaskIdle /\ StoreEmpty /\ CronIdle /\ ScanIdle /\ ClientIdle /\ DeriveIdle /\ KeepIdle /\ DataIdle /\ IssueIdle({}) /\ CRIdle(NoCLs)

SpecTask == InitTask /\ [][NextTask]_vars

InitMerge == LeaseInit /\ TaskIdle /\ StoreEmpty /\ CronIdle /\ ScanIdle /\ ClientIdle /\ DeriveIdle /\ KeepIdle /\ DataIdle /\ IssueIdle({}) /\ CRIdle(NoCLs)

SpecMerge == InitMerge /\ [][NextMerge]_vars

InitIssue ==
    LeaseInit /\ TaskIdle /\ StoreEmpty /\ CronIdle /\ ScanIdle /\ ClientIdle /\ DeriveIdle /\ KeepIdle /\ DataIdle /\ CRIdle(NoCLs) /\ \E f \in Feeds : IssueIdle(f)

SpecIssue == InitIssue /\ [][NextIssue]_vars

\* The loads against a tracker that returns maxResults issues for every
\* window.  A load that has started keeps running: the request handler is not
\* suspended for ever.
NextShrink ==
    \/ \E t \in Instants : Pass(t)
    \/ \E l \in Loaders : LoadStart(l)
    \/ \E l \in Loaders : LoadSearch(l)

InitShrink == LeaseInit /\ TaskIdle /\ StoreEmpty /\ CronIdle /\ ScanIdle /\ ClientIdle /\ DeriveIdle /\ KeepIdle /\ DataIdle /\ IssueIdle(StuckFeed) /\ CRIdle(NoCLs)

SpecShrink ==
    InitShrink /\ [][NextShrink]_vars /\ \A l \in Loaders : WF_vars(LoadSearch(l))

\* The load of package codereview alone (a cron job, which app.Task runs one
\* at a time).
InitCR ==
    LeaseInit /\ TaskIdle /\ StoreEmpty /\ CronIdle /\ ScanIdle /\ ClientIdle /\ DeriveIdle /\ KeepIdle /\ DataIdle /\ IssueIdle({}) /\ \E f \in CRFeeds : CRIdle(f)

SpecCR == InitCR /\ [][NextCR]_vars

\* The master cron's requests and the tasks they create.
InitCron == LeaseInit /\ TaskIdle /\ StoreEmpty /\ CronIdle /\ ScanIdle /\ ClientIdle /\ DeriveIdle /\ KeepIdle /\ DataIdle /\ IssueIdle({}) /\ CRIdle(NoCLs)

SpecCron == InitCron /\ [][NextCron]_vars

\* The sweeps of the scans over a store that holds a CL load has just seen,
\* c1, and a CL whose messages are loaded and whose patches are not, c2.
InitScan ==
    /\ LeaseInit /\ TaskIdle /\ CronIdle /\ ScanIdle /\ ClientIdle /\ DeriveIdle /\ KeepIdle /\ DataIdle /\ IssueIdle({}) /\ CRIdle(NoCLs)
    /\ cls = [k \in CLKeys \cup LoadCLKeys |->
                IF k = "c1" THEN FreshCL(k)
                ELSE IF k = "c2" THEN [FreshCL(k) EXCEPT !.MessagesLoaded = TRUE]
                ELSE ZeroCL]
    /\ issues = [i \in IssueIDs |-> ZeroIssue]
    /\ count = [k \in CountKeys |-> 0]
    /\ ckpt = [k \in CkptKeys |-> Absent]
    /\ patching = [k \in CLKeys |-> Absent]
    /\ mlast = NoMerge

SpecScan == InitScan /\ [][NextScan]_vars

\* Two records with the same raw fields: one never derived, with no
\* repository, and one with stale derived fields or with a repository.
InitDerive ==
    /\ LeaseInit /\ TaskIdle /\ StoreEmpty /\ CronIdle /\ ScanIdle /\ ClientIdle /\ KeepIdle /\ DataIdle /\ IssueIdle({}) /\ CRIdle(NoCLs)
    /\ \E raw \in RawCLs, repo \in PriorRepos :
        \E other \in {ZeroDerived(repo), StaleDerived(repo)} \ {ZeroDerived(NoRepo)} :
            pair = [pc |-> "stored",
                    a |-> WithDerived(raw, ZeroDerived(NoRepo)),
                    b |-> WithDerived(raw, other),
                    ra |-> NoRepo,
                    rb |-> repo,
                    at |-> 0]

SpecDerive == InitDerive /\ [][NextDerive]_vars

\* One CL from its first sighting on.
InitKeep ==
    LeaseInit /\ TaskIdle /\ StoreEmpty /\ CronIdle /\ ScanIdle /\ ClientIdle /\ DeriveIdle /\ KeepIdle /\ DataIdle /\ IssueIdle({}) /\ CRIdle(NoCLs)

SpecKeep == InitKeep /\ [][NextKeep]_vars

\* One CL, its mail scan and the issue tracker.
InitMail == InitKeep

SpecMail == InitMail /\ [][NextMail]_vars

\* The records of a kind, some of them written by earlier versions of the
\* program, with the clients and the background update at work.
LegacyRecords ==
    {Record(DataVersion - 1, <<>>, bad) : bad \in BOOLEAN} \cup {Record(DataVersion - 2, <<>>, FALSE)}
CurrentRecord == Record(DataVersion, Updaters, FALSE)
StoredRecords == {NoRecord, CurrentRecord} \cup LegacyRecords

InitData ==
    /\ LeaseInit /\ TaskIdle /\ StoreEmpty /\ CronIdle /\ ScanIdle /\ ClientIdle /\ DeriveIdle /\ KeepIdle /\ IssueIdle({}) /\ CRIdle(NoCLs)
    /\ data \in [DataKeys -> StoredRecords]
    /\ later = 0
    /\ upd = NoUpdate
    /\ dlast = NoOp

SpecData == InitData /\ [][NextData]_vars

\* The background update alone, over records no updater rejects (the
\* updaters of the repository, updateCL and updateIssue, return no error).
\* The cron job keeps calling backgroundUpdate, the task queue runs every call
\* of laterUpdateKind, and the transactions of the store do not fail for ever.
InitUpdate ==
    /\ LeaseInit /\ TaskIdle /\ StoreEmpty /\ CronIdle /\ ScanIdle /\ ClientIdle /\ DeriveIdle /\ KeepIdle /\ IssueIdle({}) /\ CRIdle(NoCLs)
    /\ data \in [DataKeys -> {r \in StoredRecords : ~r.bad}]
    /\ later = 0
    /\ upd = NoUpdate
    /\ dlast = NoOp

SpecUpdate ==
    /\ InitUpdate
    /\ [][NextUpdate]_vars
    /\ WF_vars(BackgroundUpdate)
    /\ SF_vars(UpdateBegin)
    /\ SF_vars(UpdateKey(TRUE))
    /\ WF_vars(UpdateEnd)

\* Calls of CL.Dirs on every list of files of the model.
InitDirs ==
    /\ LeaseInit /\ TaskIdle /\ StoreEmpty /\ CronIdle /\ ScanIdle /\ DeriveIdle /\ KeepIdle /\ DataIdle /\ IssueIdle({}) /\ CRIdle(NoCLs)
    /\ AuthIdle /\ RevIdle /\ TrackerIdle
    /\ \E repo \in DirRepos, files \in FileLists(MaxFiles) :
        dirs = [pc |-> "call", Repo |-> repo, Files |-> files, out |-> <<>>]

SpecDirs == InitDirs /\ [][NextDirs]_vars

\* One revision todo, new or polled for a while, and the calls racing on it.
InitRev ==
    /\ LeaseInit /\ TaskIdle /\ StoreEmpty /\ CronIdle /\ ScanIdle /\ DeriveIdle /\ KeepIdle /\ DataIdle /\ IssueIdle({}) /\ CRIdle(NoCLs)
    /\ DirsIdle /\ AuthIdle /\ TrackerIdle
    /\ \E todo \in SampleTodos :
        rev = [NoRev EXCEPT !.todo = todo, !.now = todo.Last]

SpecRev == InitRev /\ [][NextRev]_vars

\* A client of the review server, its cookies and the server's sessions.
InitAuth ==
    /\ LeaseInit /\ TaskIdle /\ StoreEmpty /\ CronIdle /\ ScanIdle /\ DeriveIdle /\ KeepIdle /\ DataIdle /\ IssueIdle({}) /\ CRIdle(NoCLs)
    /\ DirsIdle /\ RevIdle /\ TrackerIdle
    /\ AuthIdle

SpecAuth == InitAuth /\ [][NextAuth]_vars

\* C1: a Lock call on a name returns true only after the duration dt of every
\* earlier call on that name that returned true (with no Unlock of the name in
\* between) has elapsed since that call's acquisition (its now): no two
\* successful calls overlap.
LeaseMutualExclusion ==
    \A n \in LeaseNames : won[n].now # Absent => won[n].now >= won[n].promised

\* A second Lock call on a name has returned true after the first one's
\* duration ran out, while another request is inside Lock on the same name.
LeaseReacquired ==
    \E n \in LeaseNames :
        /\ won[n].now # Absent
        /\ won[n].promised > 0
        /\ \E c \in BagToSet(calls) : c.name = n

\* C2: across every step of every interleaving of the merges (writeCL,
\* writeIssue) and of the other transactions that write a record (loadpatch,
\* mailissue, the data updater, postMovedNote), the stored Modified of each CL
\* and of each Issue never decreases.
ModifiedNeverDecreases ==
    [][/\ \A k \in CLKeys : cls'[k].Modified >= cls[k].Modified
       /\ \A i \in IssueIDs : issues'[i].Modified >= issues[i].Modified]_vars

\* A merge has been refused as stale while a loadpatch that read the record is
\* still to run its transaction on it, and the record has been written by
\* mailissue.
StaleRefusedAmongWriters ==
    \E k \in CLKeys :
        /\ mlast.kind = "CL" /\ mlast.ret = "err" /\ mlast.r.CL = k
        /\ patching[k] # Absent
        /\ cls[k].MailedIssue
        /\ cls[k].Modified = MaxModified

\* The merge that this step ran, if any, presented a Modified strictly older
\* than the stored one.
StaleMergeStep ==
    /\ mlast'.kind # "none"
    /\ \/ mlast'.kind = "CL" /\ cls[mlast'.r.CL].Modified > mlast'.r.Modified
       \/ mlast'.kind = "Issue" /\ issues[mlast'.r.ID].Modified > mlast'.r.Modified

MergeRefused ==
    /\ mlast'.ret = "err"
    /\ <<cls', issues', count', ckpt'>> = <<cls, issues, count, ckpt>>

\* C3, as amended: a merge of a record that is not a tombstone (Dead) and whose
\* Modified is strictly older than the stored record's Modified returns an error
\* and leaves the stored records, the first-sighting counters and the
\* checkpoints unchanged.
StaleMergeRejected ==
    [][(StaleMergeStep /\ (mlast'.kind = "CL" => ~mlast'.r.Dead)) => MergeRefused]_vars

\* C3, as stated: every merge whose Modified is strictly older than the stored
\* record's Modified returns an error and leaves the store unchanged.
AnyStaleMergeRejected == [][StaleMergeStep => MergeRefused]_vars

\* load's merge of a search result older than the stored CL has been refused.
StaleLoadMergeRefused ==
    /\ mlast.kind = "CL" /\ mlast.ret = "err" /\ ~mlast.r.MessagesLoaded
    /\ count["codereview.count"] > 0

\* C4: merging the same remote record twice in succession (a normal CL or
\* Issue, a first sighting, or a dead CL) leaves the stored records and the
\* first-sighting counters as the first merge left them.
MergeTwiceIsMergeOnce ==
    [][(mlast' = mlast /\ mlast.kind # "none") =>
            <<cls', issues', count'>> = <<cls, issues, count>>]_vars

\* The extent of the failure of C4: the same holds of every merge but the
\* merge of a dead CL whose key has no record with its CL field set.
MergeTwiceIsMergeOnceUnlessDead ==
    [][(mlast' = mlast /\ mlast.kind # "none"
            /\ ~(mlast.kind = "CL" /\ mlast.r.Dead /\ cls[mlast.r.CL].CL = "")) =>
            <<cls', issues', count'>> = <<cls, issues, count>>]_vars

\* C5: no step of any load, whether it shortened its window, found an empty
\* window or ran beside a load started from the admin endpoint, moves a stored
\* checkpoint to an earlier time.
CheckpointNeverEarlier == [][\A k \in CkptKeys : ckpt'[k] >= ckpt[k]]_vars

\* The same of the cron job alone, with no load ever started from the admin
\* endpoint.
CheckpointNeverEarlierAlone ==
    [][run'["admin"].runs = 0 => \A k \in CkptKeys : ckpt'[k] >= ckpt[k]]_vars

\* This step is the summary search of load l, and the search returned
\* maxResults issues or more.
SaturatedSearch(l) ==
    /\ run[l].pc = "search"
    /\ run'[l] # run[l]
    /\ run'[l].out # "load issues"
    /\ Cardinality(Search(feed, run[l].mtime, run[l].now)) >= MaxResults

\* Load l goes on to search the window with the same start and a smaller end:
\* half the width, or a tenth of a width of more than an hour; nothing is merged.
Refetch(l) ==
    /\ run'[l].pc = "search"
    /\ run'[l].mtime = run[l].mtime
    /\ run'[l].now < run[l].now
    /\ LET width == run[l].now - run[l].mtime IN
           run'[l].now - run[l].mtime = IF width > Hour THEN width \div 10 ELSE width \div 2
    /\ <<issues', count', ckpt'>> = <<issues, count, ckpt>>

\* Load l ends, having logged that the window cannot be shortened and
\* returning nil; nothing is merged and the checkpoint stays.
GiveUp(l) ==
    /\ run'[l].pc = "idle"
    /\ run'[l].out = "cannot shorten update time frame"
    /\ run'[l].ret = "nil"
    /\ <<issues', count', ckpt'>> = <<issues, count, ckpt>>

\* A load merges only the page of a window whose summary search returned fewer
\* than maxResults issues.
MergeAfterSmallPage ==
    \A l \in Loaders :
        run[l].pc \in {"detail", "merge", "save"} =>
            /\ run[l].found < MaxResults
            /\ Len(run[l].page) < MaxResults

\* C6: the checkpoint is a high-water mark of merged data: whenever a step of
\* a load moves the checkpoint of an axis to a value T, the load has merged
\* every CL it fetched on that axis before the one that produced T, and T is
\* not past a CL whose merge failed in that run.
CheckpointIsHighWaterMark ==
    [][\A a \in DOMAIN Axes :
        ckpt'[Axes[a]] # ckpt[Axes[a]] =>
            /\ crRun.failed \cup crRun.skipped = {}
            /\ \A j \in crRun.failed : ckpt'[Axes[a]] <= j.Modified]_vars

\* The issue adapter's half of C6: load writes the checkpoint after the merge
\* loop only when the whole page has been merged.
IssuePageMergedBeforeSave ==
    \A l \in Loaders : run[l].pc = "save" => run[l].page = <<>>

SaturatedPageNeverMerged ==
    /\ [](MergeAfterSmallPage)
    /\ [][\A l \in Loaders :
            SaturatedSearch(l) =>
                IF run[l].now - run[l].mtime <= 2 * Second THEN GiveUp(l) ELSE Refetch(l)]_vars

\* C8, as stated: every summary search that returns maxResults issues or more
\* is followed by a search of the same window with a smaller end.
SaturatedPageRefetched ==
    /\ [](MergeAfterSmallPage)
    /\ [][\A l \in Loaders : SaturatedSearch(l) => Refetch(l)]_vars

\* A load is merging the page of a window that it shortened after a search
\* returned maxResults issues.
MergingShortenedWindow ==
    \E l \in Loaders : run[l].pc = "merge" /\ run[l].try > 0 /\ run[l].needMore

AtMostOneLiveTask == \A n \in TaskNames : Cardinality(Live(tasks, n)) <= 1

TaskCallRefused ==
    \A n \in TaskNames :
        Live(tasks, n) # {} =>
            /\ CopiesIn(n, adding') = 0
            /\ Live(tasks', n) \subseteq Live(tasks, n)
            /\ (tlast' # tlast /\ tlast'.name = n) => tlast'.ret \in {"err", "failed"}

\* C9: at most one task created by Task with a given name exists that has not
\* yet run successfully, and a Task call made while such a task exists returns
\* an error and enqueues nothing.
TaskNameExclusive == [](AtMostOneLiveTask) /\ [][TaskCallRefused]_vars

\* A Task call was refused while a task of that name was pending or running.
TaskRefusedWhileLive ==
    \E n \in TaskNames : Live(tasks, n) # {} /\ tlast = [name |-> n, ret |-> "err"]

NameAvailable == \A n \in freed : lease[TaskLeaseName(n)] = Absent

NextTaskCallPasses ==
    \A n \in TaskNames :
        (n \in freed /\ n \notin freed') =>
            \/ tlast' = [name |-> n, ret |-> "failed"]
            \/ /\ tlast' = [name |-> n, ret |-> "locked"]
               /\ adding' = adding (+) SetToBag({n})
               /\ lease'[TaskLeaseName(n)] = clock + TaskLeaseDuration

RunOutcome(i, err) ==
    IF err = ErrMoreCron
    THEN IF tasks[i].tries < RetryLimit
         THEN tasks' = [tasks EXCEPT ![i] =
                            [@ EXCEPT !.st = "pending", !.tries = @ + 1, !.last = "ErrMoreCron"]]
         ELSE Live(tasks', tasks[i].name) = {}
    ELSE /\ tasks' = [tasks EXCEPT ![i] = [@ EXCEPT !.st = "succeeded", !.last = err.id]]
         /\ lease'[TaskLeaseName(tasks[i].name)] = Absent

\* The request in progress is at a job that is due.
AtDueJob ==
    /\ trigger.pc = "list"
    /\ trigger.idx <= Len(CronList)
    /\ Due(CronList[trigger.idx], trigger.old, trigger.now, trigger.force)

\* C11, as amended: a job function that returns ErrMoreCron (the value, not
\* its text) has its task put back in the queue to run again with no new
\* request to /admin/app/cron, as long as the task has retries left, and is
\* dropped for good after that; one that returns nil or any other error ends
\* its task, and the job runs again only in a task that a later request
\* creates for a job that is due (its period boundary crossed, or force=1).
CronOutcomeDrivesRerun ==
    /\ [](\A i \in DOMAIN tasks :
            /\ tasks[i].last \in {"nil", "errors.New"} => tasks[i].st = "succeeded"
            /\ tasks[i].st \in {"pending", "running"} => tasks[i].last \in {"none", "ErrMoreCron"})
    /\ [][/\ \A i \in 1 .. MaxTasks, err \in JobResults : CronRun(i, err) => RunOutcome(i, err)
          /\ Len(tasks') > Len(tasks) => AtDueJob]_vars

\* C11, as stated: whenever the job function returns ErrMoreCron the job is run
\* again: its task is pending afterwards.
ErrMoreCronAlwaysReruns ==
    [][\A i \in 1 .. MaxTasks :
        CronRun(i, ErrMoreCron) => Live(tasks', tasks[i].name) # {}]_vars

\* A job is running again after it returned ErrMoreCron, with no request to
\* /admin/app/cron in progress.
RerunAfterErrMoreCron ==
    /\ trigger.pc = "idle"
    /\ \E i \in DOMAIN tasks :
        tasks[i].st = "running" /\ tasks[i].last = "ErrMoreCron" /\ tasks[i].tries >= 1

\* C12: a request without force dispatches a job only when it has moved the
\* tick forward in its transaction: a request that left the tick as it was
\* calls Task for no job.
DispatchOnlyAfterAdvance ==
    (trigger.called /\ ~trigger.force) => trigger.old < trigger.now

\* C13: a request that calls Task for a due job leaves a task of that job in
\* the queue, pending or running, so that the job runs at least once for the
\* tick; checked of the calls in which neither the datastore nor the queue
\* fails.
DueDispatchLeavesTask ==
    [][(AtDueJob /\ CronNext) =>
        Live(tasks', CronTaskName(CronList[trigger.idx])) # {}]_vars

\* The same of every call of Task, those in which Lock's transaction or
\* taskqueue.Add fails included.
EveryDueDispatchLeavesTask ==
    [][(AtDueJob /\ trigger'.called /\ trigger'.idx = trigger.idx + 1) =>
        Live(tasks', CronTaskName(CronList[trigger.idx])) # {}]_vars

\* The tasks of the queue that have yet to run to their end on key k, and those
\* among them that the scan called name created.
LiveOnKey(q, k) == {i \in DOMAIN q : q[i].key = k /\ q[i].st \in {"pending", "running"}}
LiveOfScan(q, name, k) == {i \in LiveOnKey(q, k) : q[i].scan = name}

\* C14: when a sweep of a scan S hands a matching key K to Task, and the name
\* of K's task is free or held by a task still in the queue, a task that runs
\* S's handler on K is in the queue afterwards (the one the sweep has created,
\* or one of an earlier sweep of S), whatever the other scans have queued.
SweepLeavesTaskOfScan ==
    [][\A k \in ScanKeys :
        (/\ ScanNext(k)
         /\ \/ lease[TaskLeaseName(ScanTaskName(sweep.name, "CL", k))] = Absent
            \/ LiveOnKey(tasks, k) # {})
        => LiveOfScan(tasks', sweep.name, k) # {}]_vars

HandlerRunsAlone ==
    \A k \in ScanKeys :
        Cardinality({i \in DOMAIN tasks : tasks[i].key = k /\ tasks[i].st = "running"})
            + (IF k \in manual THEN 1 ELSE 0) <= 1

\* C17, as amended: a Lock call whose transaction commits returns true exactly
\* when the lease record the transaction reads holds no expiry after the now
\* the call took before the transaction; it then stores now+dt, and no
\* unexpired lease existed when the transaction ran; and while the lease is
\* not released that is exactly when the dt of the call that holds it has
\* elapsed between that call's now and this one's.
LockGrantsExpiredLease ==
    [][\A c \in BagToSet(calls) :
        LockCommit(c) =>
            LET t == LeaseExpiry(lease, c.name)
                w == won[c.name]
                free == ~(c.now < t)
            IN  /\ last' = (IF free THEN "true" ELSE "false")
                /\ free => lease'[c.name] = c.now + c.dt
                /\ free => ~(clock < t)
                /\ w.now # Absent => (free <=> c.now >= w.now + w.dt)]_vars

\* C17, as stated: a Lock call whose transaction commits returns true if and
\* only if no lease on the name is unexpired when the transaction runs.
LockTrueIffNoUnexpiredLease ==
    [][\A c \in BagToSet(calls) :
        LockCommit(c) =>
            (last' = "true" <=> ~LockBlocked(LeaseExpiry(lease, c.name), clock))]_vars

\* A lease that was not released has been taken again, by a call whose now is
\* not before the expiry the earlier holder stored.
UnreleasedLeaseRetaken ==
    \E n \in LeaseNames :
        /\ last = "true"
        /\ won[n].promised > 0
        /\ won[n].now >= won[n].promised
        /\ lease[n] = won[n].now + won[n].dt

\* C18: a Lock call that returns false, because its transaction failed or
\* because the lease was held, leaves every lease record as it was.
FailedLockLeavesLease ==
    [][\A c \in BagToSet(calls) :
        /\ LockFail(c) => last' = "failed" /\ lease' = lease
        /\ LockCommit(c) /\ last' = "false" => lease' = lease]_vars

\* The transaction of a Lock call has failed while another call held the lease:
\* the holder's expiry is still stored.
LockFailedUnderLease ==
    \E n \in LeaseNames :
        /\ last = "failed"
        /\ won[n].now # Absent
        /\ lease[n] = won[n].now + won[n].dt

ActiveOnlyWhenLoaded ==
    keep.stored => (keep.cl.Active => keep.cl.MessagesLoaded /\ keep.cl.PatchSetsLoaded)

\* C21, the part about the messages alone.
ActiveOnlyWhenMessagesLoaded ==
    keep.stored => (keep.cl.Active => keep.cl.MessagesLoaded)

\* C22: after any interleaving of merges the first-sighting counters equal
\* the numbers of records created: codereview.count the number of CL
\* records, issue.count the number of Issue records.
CountIsRecords ==
    /\ count["codereview.count"] = Cardinality({k \in DOMAIN cls : cls[k].stored})
    /\ count["issue.count"] = Cardinality({i \in DOMAIN issues : issues[i].stored})

\* C22, for the issues alone.
IssueCountIsRecords ==
    count["issue.count"] = Cardinality({i \in DOMAIN issues : issues[i].stored})

\* C23: a merge (writeCL) leaves the fields of the stored CL that the server
\* does not supply as they were: Files, MoreFiles, FilesModified, Delta and
\* MailedIssue always, Messages and Submitted when the merged CL comes
\* without loaded messages, and Repo unless the record had none and updateCL
\* learns it from the messages.
MergeKeepsLocalFields ==
    [][keep'.last.op \in {"load", "loadmsg"} =>
        /\ \A f \in {"Files", "MoreFiles", "FilesModified", "Delta", "MailedIssue"} :
            keep'.cl[f] = keep.cl[f]
        /\ ~keep'.last.loaded =>
            /\ keep'.cl.Messages = keep.cl.Messages
            /\ keep'.cl.Submitted = keep.cl.Submitted
            /\ keep'.cl.Repo = keep.cl.Repo
        /\ keep.cl.Repo # NoRepo => keep'.cl.Repo = keep.cl.Repo]_vars

\* load has merged a CL with a new patch set into a record that holds
\* messages, the files of the patch sets loaded before and a mailed issue.
MergedOverLocalFields ==
    /\ keep.last.op = "load"
    /\ keep.last.ret = "nil"
    /\ ~keep.cl.PatchSetsLoaded
    /\ keep.cl.Files # NoFiles
    /\ keep.cl.MoreFiles
    /\ keep.cl.MailedIssue # <<>>
    /\ keep.cl.Messages # <<>>
    /\ keep.cl.Repo # NoRepo

\* A stored CL that is dead is not active, is flagged MessagesLoaded and
\* PatchSetsLoaded and matches the query of none of the scans loadmsg,
\* loadpatch and mail.
DeadIsIdle ==
    keep.stored /\ keep.cl.Dead =>
        /\ ~keep.cl.Active
        /\ keep.cl.MessagesLoaded
        /\ keep.cl.PatchSetsLoaded
        /\ \A scan \in {"codereview.loadmsg", "codereview.loadpatch", "codereview.mail"} :
            ~SelectedBy(scan)

\* C30: a stored CL stays stored with all it held; when loadmsg gets 404 for
\* it the record is kept with Dead set; and a dead record is idle (DeadIsIdle)
\* for as long as it is dead.
TombstoneKeptAndIdle ==
    [][/\ keep.stored => keep'.stored
       /\ keep'.last.op = "loadmsg" /\ keep'.last.dead /\ keep'.last.ret = "nil" =>
            /\ keep'.stored
            /\ keep'.cl.Dead
            /\ keep'.cl.Messages = keep.cl.Messages
            /\ keep'.cl.Desc = keep.cl.Desc
       /\ DeadIsIdle']_vars

\* loadmsg got 404 for a CL whose messages were stale and whose patch sets
\* were not loaded: the record is a tombstone that still holds its messages.
TombstoneOfKnownCL ==
    /\ keep.stored
    /\ keep.cl.Dead
    /\ keep.last.op = "loadmsg"
    /\ keep.last.dead
    /\ keep.cl.CL = "c1"
    /\ keep.cl.Mailed
    /\ keep.cl.NeedMailIssue = <<>>
    /\ keep.cl.DescIssue # <<>>
    /\ keep.cl.Messages # <<>>

\* The latest Modified of a set of issues.
LatestModified(W) == CHOOSE t \in {x.Modified : x \in W} : \A x \in W : x.Modified <= t

\* C24: when the first search of a load returns at least one issue and fewer
\* than maxResults (no window was shortened) and every merge succeeds, all the
\* issues of the window are stored as the tracker has them and the checkpoint
\* written is the latest Modified among them.
UnshortenedLoadSavesLatest ==
    [][\A l \in Loaders :
        LoadSave(l) /\ run[l].try = 0 =>
            LET W == Search(feed, run[l].from, run[l].now) IN
                /\ W # {}
                /\ Cardinality(W) < MaxResults
                /\ \A x \in W : issues[x.ID].stored /\ issues[x.ID].Modified = x.Modified
                /\ ckpt'["issue.mtime"] = LatestModified(W)
                /\ run'[l].ret = "nil"]_vars

\* The cron job has loaded the issues of the tracker that trickle in: all are
\* stored, the checkpoint is the latest Modified and the job returned nil.
TrickleLoaded ==
    /\ feed = TrickleFeed
    /\ run["cron"].pc = "idle"
    /\ run["cron"].out = "saved"
    /\ run["cron"].ret = "nil"
    /\ run["admin"].runs = 0
    /\ \A x \in feed : issues[x.ID].stored
    /\ ckpt["issue.mtime"] = LatestModified(feed)
    /\ count["issue.count"] = MaxResults - 1

\* C25: a load that ends after processing its window (the issues merged and
\* the checkpoint saved, or the window found empty) returns ErrMoreCron when
\* it had shortened the window and nil when it had not; and a load that never
\* shortened its window returns nil however it ends.
ShortenedLoadAsksForMore ==
    [][\A l \in Loaders :
        run[l].pc # "idle" /\ run'[l].pc = "idle" =>
            /\ run'[l].out \in {"saved", "no updates found"} =>
                run'[l].ret = IF run[l].try > 0 THEN "ErrMoreCron" ELSE "nil"
            /\ run[l].try = 0 => run'[l].ret = "nil"]_vars

\* A load that had shortened its window has merged the issues of the window,
\* saved the checkpoint and returned ErrMoreCron.
ShortenedLoadSaved ==
    \E l \in Loaders :
        /\ run[l].pc = "idle"
        /\ run[l].out = "saved"
        /\ run[l].ret = "ErrMoreCron"
        /\ \E i \in DOMAIN issues : issues[i].stored

\* C29: when the detail (the comments) of one issue of the page cannot be
\* fetched or parsed, the other issues of the page are still returned by
\* search and load goes on to merge them.
DetailFailureConfined ==
    [][\A l \in Loaders, x \in feed :
        LoadDetailErr(l, x) =>
            LET others == Search(feed, run[l].mtime, run[l].now) \ {x} IN
                others # {} =>
                    /\ run'[l].pc = "merge"
                    /\ {run'[l].page[i] : i \in DOMAIN run'[l].page} = others]_vars


\* C26: every record that WriteData puts in the store, for a client or for
\* the background update, is stored with DV equal to the dataversion of its
\* type and with every registered updater applied, in order, just before.
WritesAreNormalized ==
    [][\A k \in DataKeys :
         data'[k] # data[k] => data'[k].DV = DataVersion /\ data'[k].marks = Updaters]_vars

\* A client's write succeeded and the background update rewrote a record.
ClientAndBackgroundWrote ==
    /\ dlast.op = "write" /\ dlast.ret = "nil"
    /\ upd.pc = "run" /\ upd.wrote
    /\ \E k \in DataKeys : data[k] = CurrentRecord


\* C27: when an updater returns an error the operation stops and its caller
\* gets the error: WriteData puts nothing, so the stored records stay as they
\* were; ReadData returns the error, and no ReadData writes to the store; the
\* background update counts the error and leaves the record.
UpdaterErrorAborts ==
    [][/\ \A k \in DataKeys, ok \in BOOLEAN :
            DataWrite(k, TRUE, ok) => data' = data /\ dlast'.ret = "updater"
       /\ \A k \in DataKeys, ok \in BOOLEAN :
            DataRead(k, ok) =>
                /\ data' = data
                /\ (ok /\ data[k] # NoRecord /\ data[k].bad => dlast'.ret = "updater")
       /\ \A ok \in BOOLEAN :
            (UpdateKey(ok) /\ data[Head(upd.keys)].bad) =>
                data' = data /\ upd'.numError = upd.numError + 1]_vars

\* A write of a record the second updater rejects returned the updater's
\* error over stored records, and the background update met such a record.
RejectedWriteOverRecords ==
    /\ dlast.op = "write" /\ dlast.bad /\ dlast.ret = "updater"
    /\ \A k \in DataKeys : data[k] # NoRecord
    /\ upd.pc = "run" /\ upd.numError > 0 /\ ~upd.wrote


LatestVerdictStands ==
    pair.pc = "derived" =>
        \A cl \in {pair.a, pair.b} :
            LET ms == cl.Messages
                In(q) == {q[i] : i \in DOMAIN q}
                V(x) == {i \in DOMAIN ms : ms[i].Sender = x /\ ms[i].verdict # ""}
                lastVerdict(x) == ms[Greatest(V(x))].verdict
            IN  /\ In(cl.LGTM) \cap In(cl.NOTLGTM) = {}
                /\ \A x \in In(cl.LGTM) : V(x) # {} /\ lastVerdict(x) = "LGTM"
                /\ \A x \in In(cl.NOTLGTM) : V(x) # {} /\ lastVerdict(x) = "NOT LGTM"
                /\ \A i \in DOMAIN ms :
                    (isReviewer(ms[i].Sender) # "" /\ ms[i].verdict # "") =>
                        ms[i].Sender \in In(cl.LGTM) \cup In(cl.NOTLGTM)
                /\ (/\ Len(ms) = 2
                    /\ ms[1].Sender = cl.OwnerEmail /\ ms[1].R = "adg" /\ ms[1].verdict = ""
                    /\ ms[2].Sender = "adg@golang.org" /\ ms[2].verdict = "LGTM")
                   => /\ cl.PrimaryReviewer = "adg@golang.org"
                      /\ cl.LGTM = <<"adg@golang.org">>
                      /\ cl.NOTLGTM = <<>>
                      /\ ~cl.NeedsReview

\* adg said NOT LGTM and then LGTM: adg is in LGTM alone.
VerdictOverridden ==
    /\ pair.pc = "derived"
    /\ Len(pair.a.Messages) = 2
    /\ pair.a.Messages[1].Sender = "adg@golang.org" /\ pair.a.Messages[1].verdict = "NOT LGTM"
    /\ pair.a.Messages[2].Sender = "adg@golang.org" /\ pair.a.Messages[2].verdict = "LGTM"
    /\ pair.a.LGTM = <<"adg@golang.org">>
    /\ pair.a.NOTLGTM = <<>>


\* C35: Dirs returns each directory name of the CL's files once, ordered by
\* falling number of files and, among equal numbers, by rising name, with the
\* number of "test" lowered so that "test" comes first only when it is the
\* only name.
DirsOrdered ==
    dirs.pc = "done" =>
        LET out == dirs.out
            files == dirs.Files
            nameOf(i) == DirName(dirs.Repo, files[i])
            n(x) == Cardinality({i \in DOMAIN files : nameOf(i) = x})
                        - (IF x = <<"test">> THEN 10000 ELSE 0)
        IN  /\ {out[i] : i \in DOMAIN out} = {nameOf(i) : i \in DOMAIN files}
            /\ \A i, j \in DOMAIN out : i < j =>
                /\ out[i] # out[j]
                /\ n(out[i]) >= n(out[j])
                /\ n(out[i]) = n(out[j]) => NameLess(out[i], out[j])
            /\ (out # <<>> /\ out[1] = <<"test">>) => Len(out) = 1

\* Two files in test and one in net/http: net/http comes first, test last.
TestRankedLast ==
    /\ dirs.pc = "done"
    /\ Len(dirs.Files) = 3
    /\ dirs.out = <<<<"net", "http">>, <<"test">>>>


\* C36: the lease Task.<n> never outlives its task: whenever no Task call on n
\* is between Lock and taskqueue.Add and no task named n is pending or running,
\* the lease record of the name is absent or expired, so that the next Task
\* call on n is not refused.
LeaseNeverOutlivesTask ==
    \A n \in TaskNames :
        (~BagIn(n, adding) /\ Live(tasks, n) = {}) =>
            \/ lease[TaskLeaseName(n)] = Absent
            \/ lease[TaskLeaseName(n)] <= clock


\* C38: whenever loadpatch commits PatchSetsLoaded = true, the patch sets it
\* fetched (the list it read before the transaction, whose last one gives
\* Files, FilesModified and Delta) are the PatchSets of the record it writes:
\* after a concurrent merge replaced the list, loadpatch does not mark the
\* record as loaded.
LoadedFromStoredPatchSetsStep ==
    (/\ keep.patching.on
     /\ ~keep.cl.PatchSetsLoaded
     /\ keep'.cl.PatchSetsLoaded
     /\ keep'.last.op = "loadpatch")
        => keep'.cl.PatchSets = keep.patching.sets

LoadedFromStoredPatchSets == [][LoadedFromStoredPatchSetsStep]_vars


\* C39: over the life of a CL, mailissue posts the notification comment of
\* an issue at most once: no issue has the comment more than once, whatever
\* sweeps, retries and failed transactions there were.
MailedAtMostOnce == tracker.twice = {}


\* C37: when load merges again a summary whose Modified equals the stored
\* Modified (the poll asks for the changes since the checkpoint and sees the
\* last CL again), the record keeps MessagesLoaded = true, so that with an
\* unchanging server every CL stays loaded and no further loadmsg is needed.
RemergeKeepsMessagesLoadedStep ==
    (/\ keep.stored
     /\ keep.cl.MessagesLoaded
     /\ ~keep.cl.Dead
     /\ keep'.last = [op |-> "load", loaded |-> FALSE, dead |-> FALSE, ret |-> "nil"]
     /\ keep'.cl.Modified = keep.cl.Modified)
        => keep'.cl.MessagesLoaded

RemergeKeepsMessagesLoaded == [][RemergeKeepsMessagesLoadedStep]_vars


\* The cap of the polling interval by the age of the todo.
RevCap(age) ==
    IF age < 24 * Hour THEN 5 * Minute ELSE IF age < 7 * 24 * Hour THEN Hour ELSE 24 * Hour

RevMin(a, b) == IF a < b THEN a ELSE b

\* A call of loadRevOnce by p passes the scheduling transaction only when the
\* scheduled time has come and no call has passed for that scheduled time; it
\* moves todo.Time into the future by the doubled interval (one minute at
\* first) under the cap of the todo's age.
RevPassesOnce(p) ==
    (rev.pc[p] = "txn" /\ rev'.pc[p] = "fetch") =>
        LET before == rev.todo.Time - rev.todo.Last
            after == rev'.todo.Time - rev'.todo.Last
        IN  /\ rev.todo.exists
            /\ rev.todo.Time <= rev.now
            /\ rev.todo.Time \notin rev.passed
            /\ rev'.todo.Last = rev.now
            /\ rev'.todo.Time > rev.now
            /\ after = IF before = 0 THEN Minute
                       ELSE RevMin(2 * before, RevCap(rev.todo.Time - rev.todo.Start))

\* A call that finds the todo scheduled for later returns without fetching
\* and leaves the todo as it is.
RevOthersWait(p) ==
    (rev.pc[p] = "txn" /\ rev'.pc[p] # "txn" /\ rev.todo.exists /\ rev.now < rev.todo.Time) =>
        /\ rev'.pc[p] = "idle"
        /\ rev'.todo = rev.todo
        /\ rev'.passed = rev.passed

RevSchedulingStep == \A p \in RevProcs : RevPassesOnce(p) /\ RevOthersWait(p)

Rejection(resp) == resp.sc = 401 \/ (resp.sc = 302 /\ resp.location = LoginLocation)

\* The number of the attempt whose Sign is entry k of the log.
AttemptOf(k) == Cardinality({j \in 1 .. k : auth.log[j].call = "Sign"})

\* Login is called only after a rejected request, with the time that request
\* was signed.
LoginOnlyAfterRejection ==
    \A k \in DOMAIN auth.log :
        auth.log[k].call = "Login" =>
            /\ k > 1
            /\ auth.log[k - 1].call = "Sign"
            /\ auth.log[k].at = auth.log[k - 1].at
            /\ Rejection(auth.resps[AttemptOf(k - 1)])

\* A rejected attempt other than the last is followed by Login and then by a
\* request signed with other, newer cookies.
RejectionLeadsToLogin ==
    \A k \in DOMAIN auth.log :
        (/\ auth.log[k].call = "Sign"
         /\ AttemptOf(k) <= Len(auth.resps)
         /\ Rejection(auth.resps[AttemptOf(k)])
         /\ AttemptOf(k) < maxRetries)
            => \/ k = Len(auth.log) /\ auth.pc = "login"
               \/ /\ k < Len(auth.log)
                  /\ auth.log[k + 1].call = "Login"
                  /\ k + 1 < Len(auth.log) =>
                        /\ auth.log[k + 2].call = "Sign"
                        /\ auth.log[k + 2].cookies > auth.log[k].cookies
                        /\ auth.log[k + 2].cookies >= auth.log[k + 1].cookies

\* At most maxRetries requests are sent, and do returns nil only when the
\* last answer was processed.
GivesUpAfterMaxRetries ==
    /\ AttemptOf(Len(auth.log)) <= maxRetries
    /\ Len(auth.resps) <= maxRetries
    /\ (auth.pc = "done" /\ auth.err = "nil") =>
            /\ auth.resps # <<>>
            /\ ~Rejection(auth.resps[Len(auth.resps)])
            /\ auth.resps[Len(auth.resps)] # DoErr
    /\ (auth.pc = "sign" /\ auth.log # <<>>) => Len(auth.resps) < maxRetries

\* C31: a request answered with 401 or with a redirection to the login page
\* makes the client call Login with the time the rejected request was signed
\* and send the request again signed with the new credentials (the calls are
\* Sign, Login, Sign); Login is not called otherwise, so the credentials the
\* process holds are used until they are rejected; do gives up with an error
\* after 3 attempts.
SignLoginSign ==
    /\ LoginOnlyAfterRejection
    /\ RejectionLeadsToLogin
    /\ GivesUpAfterMaxRetries
    /\ (/\ auth.pc = "done"
        /\ auth.err = "nil"
        /\ Len(auth.resps) = 2
        /\ Rejection(auth.resps[1]))
            => [k \in DOMAIN auth.log |-> auth.log[k].call] = <<"Sign", "Login", "Sign">>

\* The second request of the process was signed with the cookies of an
\* earlier login, redirected to the login page, and went through after Login.
CachedCookiesRejectedOnce ==
    /\ auth.pc = "done"
    /\ auth.err = "nil"
    /\ auth.dos = 2
    /\ Len(auth.resps) = 2
    /\ auth.resps[1] = Response(302, LoginLocation)
    /\ auth.log[1].cookies > 0
    /\ [k \in DOMAIN auth.log |-> auth.log[k].call] = <<"Sign", "Login", "Sign">>

=============================================================================
